---- MODULE Spec2Model ----
(***************************************************************************)
(* Model of the scan-score-dedupe pipeline of the Reddit monitoring        *)
(* system: the opportunity store (src/src/database/queries.py), the scan   *)
(* driver (src/lambda/scanner/handler.py, src/scripts/run_scan.py), the    *)
(* Slack interaction handlers (src/slack/handlers.py), the keyword matcher *)
(* and the engagement scorer (src/src/scanner/keyword_matcher.py).         *)
(*                                                                         *)
(* Scores are integers: hundredths for the values the code rounds to two   *)
(* decimals, thousandths for the unrounded intermediate values.            *)
(***************************************************************************)
EXTENDS Integers, Sequences, FiniteSets, TLC

VARIABLES
    opportunities,   \* the opportunities table: row i has id i
    responses,       \* the responses table: the opportunity_id of its rows
    now,             \* the database clock NOW(), in hours
    scan,            \* scan[p]: the frame of scan invocation p (scan_and_notify)
    handler,         \* the Slack interaction being handled
    responder,       \* the mark_responded call in progress
    slack_posts,     \* slack_posts[r]: chat_postMessage calls made for reddit_id r
    create_log,      \* the create calls made so far and what each returned
    mtitle, mtext,   \* KeywordMatcher.match: its arguments
    mcounts,         \* KeywordMatcher.match: what findall found, per phrase
    mresult,         \* KeywordMatcher.match: the MatchResult returned
    epost, ekeyword, \* calculate_engagement_score: its arguments
    eresult,         \* calculate_engagement_score: the tuple returned
    min_score,       \* scan_all_subreddits: the min_score the caller passed
    stream,          \* what the Post Source delivered for the scope last scanned
    monitor,         \* scan_all_subreddits: its position and the ScanResult last yielded
    response,        \* lambda_handler: the response it returned last
    slack_up,        \* the Slack API has recovered and answers every call from now on
    morder,          \* the order in which a permuted taxonomy declares the phrases
    mresult2,        \* KeywordMatcher.match under the permuted taxonomy
    apost, aresult,  \* RelevanceScorer.analyze_post: its argument and its outcome
    batch, sresult,  \* a Post Source: the records it received and what it delivered
    interaction,     \* handle_interaction: the payload handled last, the table before it
    dbcall,          \* a statement sent through DatabaseConnection, and its attempts
    matchers,        \* the KeywordMatcher instances: the keywords each one holds
    qresult,         \* KeywordMatcher.quick_match: what it returned
    invocation       \* scan_and_notify: the scan results and the store it started with

storeVars == <<opportunities, responses, now, scan, handler, responder,
               slack_posts, create_log>>
matchVars == <<mtitle, mtext, mcounts, mresult>>
engVars   == <<epost, ekeyword, eresult>>
monVars   == <<min_score, stream, monitor>>
lambdaVars == <<response, slack_up>>
ordVars   == <<morder, mresult2>>
enrichVars == <<apost, aresult>>
srcVars   == <<batch, sresult>>
reviewVars == <<interaction>>
dbVars    == <<dbcall>>
instVars  == <<matchers>>
quickVars == <<qresult>>
scopeVars == <<invocation>>
lateVars  == <<reviewVars, dbVars, instVars, quickVars, scopeVars>>
restVars  == <<monVars, lambdaVars, ordVars, enrichVars, srcVars, lateVars>>
vars      == <<opportunities, responses, now, scan, handler, responder,
               slack_posts, create_log, mtitle, mtext, mcounts, mresult,
               epost, ekeyword, eresult, min_score, stream, monitor,
               response, slack_up, morder, mresult2, apost, aresult,
               batch, sresult, interaction, dbcall, matchers, qresult,
               invocation>>

\* Python's None where a string is expected; an absent id or ts is 0, which
\* `if opp_id:` and `if ts:` treat as they treat None
None == "None"

(***************************************************************************)
(* Bounds of the model.                                                    *)
(***************************************************************************)
RedditIds == {"r1", "r2"}
Users     == {"alice"}
Procs     == {1, 2}
MaxListing   == 2     \* posts in one scan result
MaxClock     == 96    \* the clock stops here
TickHours    == 48    \* hours per clock advance
MaxTextLen   == 3     \* characters in a title, and in a body
MaxTitleHits == 1     \* occurrences of one phrase in a title, when drawn directly
MaxBodyHits  == 2     \* occurrences of one phrase in a body, when drawn directly
MaxStream    == 2     \* posts a source delivers for one scope
MaxBatch     == 3     \* raw records a source receives in one batch
MaxFailures  == 4     \* attempts the database fails in a row
MaxInstances == 2     \* KeywordMatcher instances alive
MaxAdds      == 2     \* add_custom_keywords calls

(***************************************************************************)
(* Values of the program.                                                  *)
(***************************************************************************)
Statuses == {"pending", "reviewed", "dismissed", "approved", "rejected",
             "responded", "expired"}

\* hours=48 passed by the scan driver to expire_old_opportunities
ExpiryHours == 48

\* max_slack_posts, the default of the trigger event
DefaultMaxSlackPosts == 10

\* relevance_score (hundredths) the scan attaches to each post
RelevanceOf(r) == IF r = "r1" THEN 60 ELSE 80

(***************************************************************************)
(* OpportunityQueries: each operator is one SQL statement, applied to the  *)
(* table `rows`.                                                           *)
(***************************************************************************)
RowsWith(rows, reddit_id) == {i \in DOMAIN rows : rows[i].reddit_id = reddit_id}

\* SELECT 1 FROM opportunities WHERE reddit_id = %s
exists(rows, reddit_id) == RowsWith(rows, reddit_id) # {}

\* SELECT * FROM opportunities WHERE reddit_id = %s (the id of the row, else 0)
get_by_reddit_id(rows, reddit_id) ==
    IF RowsWith(rows, reddit_id) = {} THEN 0
    ELSE CHOOSE i \in RowsWith(rows, reddit_id) : TRUE

NewRow(reddit_id, t) ==
    [reddit_id |-> reddit_id, status |-> "pending", reviewed_by |-> None,
     slack_message_ts |-> 0, created_at |-> t,
     relevance_score |-> RelevanceOf(reddit_id)]

\* a plain INSERT, without ON CONFLICT (reddit_id) DO NOTHING
create_rows_no_conflict_clause(rows, reddit_id, t) ==
    Append(rows, NewRow(reddit_id, t))

\* ON CONFLICT (reddit_id) DO UPDATE: the stored row is overwritten
create_rows_do_update(rows, reddit_id, t) ==
    IF RowsWith(rows, reddit_id) = {} THEN Append(rows, NewRow(reddit_id, t))
    ELSE [i \in DOMAIN rows |->
            IF rows[i].reddit_id = reddit_id THEN NewRow(reddit_id, t) ELSE rows[i]]

\* INSERT ... ON CONFLICT (reddit_id) DO NOTHING: the table afterwards
create_rows(rows, reddit_id, t) ==
    IF exists(rows, reddit_id) THEN rows ELSE Append(rows, NewRow(reddit_id, t))

\* create returning the id of the stored row also when the insert did nothing
create_returns_stored_id(rows, reddit_id) ==
    IF RowsWith(rows, reddit_id) # {}
    THEN CHOOSE i \in RowsWith(rows, reddit_id) : TRUE
    ELSE Len(rows) + 1

\* ... RETURNING id: the id create returns, 0 (None) when the insert did nothing
create_returns(rows, reddit_id) ==
    IF exists(rows, reddit_id) THEN 0 ELSE Len(rows) + 1

\* UPDATE opportunities SET status, reviewed_at, reviewed_by WHERE id = %s
update_status(rows, id, status, reviewed_by) ==
    [i \in DOMAIN rows |->
        IF i = id
        THEN [rows[i] EXCEPT !.status = status, !.reviewed_by = reviewed_by]
        ELSE rows[i]]

\* UPDATE opportunities SET slack_message_ts = %s WHERE id = %s
update_slack_ts(rows, id, ts) ==
    [i \in DOMAIN rows |->
        IF i = id THEN [rows[i] EXCEPT !.slack_message_ts = ts] ELSE rows[i]]

\* the sweep without its status = 'pending' condition
Expirable_any_status(row, t, hours) ==
    row.status # "expired" /\ row.created_at < t - hours

\* WHERE status = 'pending' AND created_at < NOW() - INTERVAL '%s hours'
Expirable(row, t, hours) ==
    row.status = "pending" /\ row.created_at < t - hours

\* UPDATE opportunities SET status = 'expired' WHERE ...: the table afterwards
expire_old_opportunities(rows, t, hours) ==
    [i \in DOMAIN rows |->
        IF Expirable(rows[i], t, hours)
        THEN [rows[i] EXCEPT !.status = "expired"]
        ELSE rows[i]]

\* cursor.rowcount of that UPDATE
expire_rowcount(rows, t, hours) ==
    Cardinality({i \in DOMAIN rows : Expirable(rows[i], t, hours)})

(***************************************************************************)
(* The scan driver: scan_and_notify (lambda handler) and main (run_scan).  *)
(* Every database statement and every Slack call is one step of a scan     *)
(* invocation; the in-memory work between two of them belongs to the step  *)
(* before it.                                                              *)
(***************************************************************************)
\* a descending sort that puts a record before the records it ties with
RECURSIVE InsertDesc_before_ties(_, _)
InsertDesc_before_ties(sorted, r) ==
    IF sorted = <<>> THEN <<r>>
    ELSE IF Head(sorted).relevance_score > r.relevance_score
         THEN <<Head(sorted)>> \o InsertDesc_before_ties(Tail(sorted), r)
         ELSE <<r>> \o sorted

\* list.sort(key=relevance_score, reverse=True): stable, descending
RECURSIVE InsertDesc(_, _)
InsertDesc(sorted, r) ==
    IF sorted = <<>> THEN <<r>>
    ELSE IF Head(sorted).relevance_score >= r.relevance_score
         THEN <<Head(sorted)>> \o InsertDesc(Tail(sorted), r)
         ELSE <<r>> \o sorted

RECURSIVE SortDesc(_)
SortDesc(list) ==
    IF list = <<>> THEN <<>>
    ELSE InsertDesc(SortDesc(SubSeq(list, 1, Len(list) - 1)), list[Len(list)])

\* the ScanResults a SubredditMonitor can yield: opportunities sorted, no post twice
Candidates ==
    {[reddit_id |-> r, relevance_score |-> RelevanceOf(r), id |-> 0] :
        r \in RedditIds}

Listings ==
    {l \in UNION {[1..n -> Candidates] : n \in 0..MaxListing} :
        /\ \A i, j \in DOMAIN l : i < j => l[i] # l[j]
        /\ SortDesc(l) = l}

ScanResults == [errors : BOOLEAN, opportunities : Listings]

IdleFrame ==
    [pc |-> "idle", scan_results |-> <<>>, pending |-> <<>>,
     all_opportunities |-> <<>>, k |-> 1, ts |-> 0,
     subreddits_scanned |-> 0, posts_scanned |-> 0, opportunities_found |-> 0,
     notifications_sent |-> 0, errors |-> 0, opportunities_expired |-> -1,
     max_slack_posts |-> DefaultMaxSlackPosts]

\* every new opportunity is posted, whatever max_slack_posts says
ToPost_all(f) == f.all_opportunities

\* all_opportunities[:max_slack_posts]
ToPost(f) ==
    SubSeq(f.all_opportunities, 1,
           IF Len(f.all_opportunities) < f.max_slack_posts
           THEN Len(f.all_opportunities) ELSE f.max_slack_posts)

\* the posting loop: on to the next opportunity to post, or to the expiry sweep
PostLoop(f) ==
    IF f.k <= Len(ToPost(f)) THEN [f EXCEPT !.pc = "post"]
    ELSE [f EXCEPT !.pc = "expire"]

\* the scan loop without its `continue`: a scan result with errors is recorded
\* and the opportunities found before the failure are processed all the same
RECURSIVE ScanLoop_keeps_failed(_)
ScanLoop_keeps_failed(f) ==
    IF f.pending # <<>> THEN [f EXCEPT !.pc = "exists"]
    ELSE IF f.scan_results # <<>>
    THEN LET r == Head(f.scan_results)
             g == [f EXCEPT !.scan_results = Tail(@),
                            !.subreddits_scanned = @ + 1,
                            !.posts_scanned = @ + Len(r.opportunities),
                            !.errors = IF r.errors THEN @ + 1 ELSE @]
         IN ScanLoop_keeps_failed([g EXCEPT !.pending = r.opportunities])
    ELSE PostLoop([f EXCEPT !.all_opportunities = SortDesc(@), !.k = 1])

\* the scan loop: on to the next opportunity of the current scan result, else to
\* the next scan result (one with errors is recorded and skipped), else sort
RECURSIVE ScanLoop(_)
ScanLoop(f) ==
    IF f.pending # <<>> THEN [f EXCEPT !.pc = "exists"]
    ELSE IF f.scan_results # <<>>
    THEN LET r == Head(f.scan_results)
             g == [f EXCEPT !.scan_results = Tail(@),
                            !.subreddits_scanned = @ + 1,
                            !.posts_scanned = @ + Len(r.opportunities)]
         IN IF r.errors
            THEN ScanLoop([g EXCEPT !.errors = @ + 1])
            ELSE ScanLoop([g EXCEPT !.pending = r.opportunities])
    ELSE PostLoop([f EXCEPT !.all_opportunities = SortDesc(@), !.k = 1])

\* scan_and_notify(event) is invoked; the monitor yields `results`
ScanStart(p, results) ==
    /\ scan[p].pc = "idle"
    /\ scan' = [scan EXCEPT ![p] = ScanLoop([IdleFrame EXCEPT !.scan_results = results])]
    /\ UNCHANGED <<opportunities, responses, now, handler, responder,
                   slack_posts, create_log>>

\* if opp_queries.exists(opp["reddit_id"]): continue
Exists(p) ==
    /\ scan[p].pc = "exists"
    /\ scan' = [scan EXCEPT ![p] =
                  IF exists(opportunities, Head(scan[p].pending).reddit_id)
                  THEN ScanLoop([@ EXCEPT !.pending = Tail(@)])
                  ELSE [@ EXCEPT !.pc = "create"]]
    /\ UNCHANGED <<opportunities, responses, now, handler, responder,
                   slack_posts, create_log>>

\* opp_id = opp_queries.create(opp); if opp_id: all_opportunities.append(opp)
Create(p) ==
    /\ scan[p].pc = "create"
    /\ LET opp    == Head(scan[p].pending)
           opp_id == create_returns(opportunities, opp.reddit_id)
       IN /\ opportunities' = create_rows(opportunities, opp.reddit_id, now)
          /\ create_log' = create_log \cup
                 {[proc |-> p, reddit_id |-> opp.reddit_id, returned |-> opp_id]}
          /\ scan' = [scan EXCEPT ![p] =
                  IF opp_id # 0
                  THEN ScanLoop([@ EXCEPT !.pending = Tail(@),
                                          !.all_opportunities =
                                              Append(@, [opp EXCEPT !.id = opp_id]),
                                          !.opportunities_found = @ + 1])
                  ELSE ScanLoop([@ EXCEPT !.pending = Tail(@)])]
    /\ UNCHANGED <<responses, now, handler, responder, slack_posts>>

\* ts = slack_bot.post_opportunity(opp): a ts (here the number of the message
\* among those posted for the post), or None when the Slack API fails
Post(p, ok) ==
    /\ scan[p].pc = "post"
    /\ LET opp == ToPost(scan[p])[scan[p].k]
       IN /\ slack_posts' = [slack_posts EXCEPT ![opp.reddit_id] = @ + 1]
          /\ scan' = [scan EXCEPT ![p] =
                  IF ok
                  THEN [@ EXCEPT !.pc = "update_ts",
                                 !.ts = slack_posts[opp.reddit_id] + 1]
                  ELSE PostLoop([@ EXCEPT !.k = @ + 1])]
    /\ UNCHANGED <<opportunities, responses, now, handler, responder, create_log>>

\* opp_queries.update_slack_ts(opp["id"], ts); posted_count += 1
UpdateTs(p) ==
    /\ scan[p].pc = "update_ts"
    /\ LET opp == ToPost(scan[p])[scan[p].k]
       IN opportunities' = update_slack_ts(opportunities, opp.id, scan[p].ts)
    /\ scan' = [scan EXCEPT ![p] =
                  PostLoop([@ EXCEPT !.k = @ + 1, !.ts = 0,
                                     !.notifications_sent = @ + 1])]
    /\ UNCHANGED <<responses, now, handler, responder, slack_posts, create_log>>

\* expired = opp_queries.expire_old_opportunities(hours=48); return results
Expire(p) ==
    /\ scan[p].pc = "expire"
    /\ opportunities' = expire_old_opportunities(opportunities, now, ExpiryHours)
    /\ scan' = [scan EXCEPT ![p] =
                  [@ EXCEPT !.pc = "done",
                            !.opportunities_expired =
                                expire_rowcount(opportunities, now, ExpiryHours)]]
    /\ UNCHANGED <<responses, now, handler, responder, slack_posts, create_log>>

\* return results: the invocation ends, and a later one may start
Return(p) ==
    /\ scan[p].pc = "done"
    /\ scan' = [scan EXCEPT ![p] = IdleFrame]
    /\ UNCHANGED <<opportunities, responses, now, handler, responder,
                   slack_posts, create_log>>

(***************************************************************************)
(* Slack interactions (SlackInteractionHandler) and mark_responded: the     *)
(* callers of update_status. No code writes the statuses reviewed and      *)
(* dismissed.                                                              *)
(***************************************************************************)
ActionStatus(action_id) ==
    IF action_id = "approve_opportunity" THEN "approved" ELSE "rejected"

IdleHandler == [pc |-> "idle", id |-> 0, status |-> None, user |-> None]

\* handle_interaction -> _handle_approve / _handle_reject, up to the lookup
HandleInteraction(action_id, reddit_id, user_name) ==
    /\ handler.pc = "idle"
    /\ LET opportunity == get_by_reddit_id(opportunities, reddit_id)
       IN handler' = IF opportunity = 0
                     THEN IdleHandler
                     ELSE [pc |-> "update", id |-> opportunity,
                           status |-> ActionStatus(action_id),
                           user |-> user_name]
    /\ UNCHANGED <<opportunities, responses, now, scan, responder,
                   slack_posts, create_log>>

\* self.queries.update_status(opportunity["id"], status, reviewed_by=user_name)
HandlerUpdate ==
    /\ handler.pc = "update"
    /\ opportunities' = update_status(opportunities, handler.id, handler.status,
                                      handler.user)
    /\ handler' = IdleHandler
    /\ UNCHANGED <<responses, now, scan, responder, slack_posts, create_log>>

\* mark_responded, first statement: self.update_status(opportunity_id, "responded")
MarkRespondedUpdate(id) ==
    /\ responder.pc = "idle"
    /\ id \in DOMAIN opportunities
    /\ opportunities' = update_status(opportunities, id, "responded", None)
    /\ responder' = [pc |-> "insert", id |-> id]
    /\ UNCHANGED <<responses, now, scan, handler, slack_posts, create_log>>

\* mark_responded, second statement: INSERT INTO responses ... RETURNING id
MarkRespondedInsert ==
    /\ responder.pc = "insert"
    /\ responses' = responses \cup {responder.id}
    /\ responder' = [pc |-> "idle", id |-> 0]
    /\ UNCHANGED <<opportunities, now, scan, handler, slack_posts, create_log>>

\* time passes
Tick ==
    /\ now < MaxClock
    /\ now' = now + TickHours
    /\ UNCHANGED <<opportunities, responses, scan, handler, responder,
                   slack_posts, create_log>>

(***************************************************************************)
(* The store and its clients.                                              *)
(***************************************************************************)
InitStore ==
    /\ opportunities = <<>>
    /\ responses = {}
    /\ now = 0
    /\ scan = [p \in Procs |-> IdleFrame]
    /\ handler = IdleHandler
    /\ responder = [pc |-> "idle", id |-> 0]
    /\ slack_posts = [r \in RedditIds |-> 0]
    /\ create_log = {}

IdleMatch ==
    /\ mtitle = <<>>
    /\ mtext = <<>>
    /\ mcounts = <<>>
    /\ mresult = [called |-> FALSE]

IdleEng ==
    /\ epost = [called |-> FALSE]
    /\ ekeyword = 0
    /\ eresult = [called |-> FALSE]

\* the locals of scan_subreddit as the loop is entered
EmptyAcc ==
    [posts_scanned |-> 0, opportunities |-> <<>>,
     match_calls |-> <<>>, score_calls |-> <<>>]

\* scan_all_subreddits not called yet
IdleMonitor ==
    [next |-> 1, scanning |-> FALSE, errors_seen |-> 0,
     result |-> [called |-> FALSE], acc |-> EmptyAcc]

IdleMon ==
    /\ min_score = -1
    /\ stream = [posts |-> <<>>, error |-> None]
    /\ monitor = IdleMonitor

IdleLambda ==
    /\ response = [called |-> FALSE]
    /\ slack_up = FALSE

IdleOrd ==
    /\ morder = <<>>
    /\ mresult2 = [called |-> FALSE]

IdleEnrich ==
    /\ apost = [called |-> FALSE]
    /\ aresult = [called |-> FALSE]

IdleSrc ==
    /\ batch = [called |-> FALSE]
    /\ sresult = [called |-> FALSE]

IdleLate ==
    /\ interaction = [called |-> FALSE]
    /\ dbcall = [called |-> FALSE]
    /\ matchers = <<>>
    /\ qresult = [called |-> FALSE]
    /\ invocation = [called |-> FALSE]

IdleRest ==
    IdleMon /\ IdleLambda /\ IdleOrd /\ IdleEnrich /\ IdleSrc /\ IdleLate

Init == InitStore /\ IdleMatch /\ IdleEng /\ IdleRest

Frame == UNCHANGED <<matchVars, engVars, restVars>>

\* one step of scan invocation p
ScanStep(p) ==
    \/ \E r \in ScanResults : ScanStart(p, <<r>>) /\ Frame
    \/ Exists(p) /\ Frame
    \/ Create(p) /\ Frame
    \/ \E ok \in BOOLEAN : Post(p, ok) /\ Frame
    \/ UpdateTs(p) /\ Frame
    \/ Expire(p) /\ Frame
    \/ Return(p) /\ Frame

\* one step of a reviewer: a Slack button, or mark_responded
ReviewStep ==
    \/ \E a \in {"approve_opportunity", "reject_opportunity"},
          r \in RedditIds, u \in Users : HandleInteraction(a, r, u) /\ Frame
    \/ HandlerUpdate /\ Frame
    \/ \E id \in 1..Cardinality(RedditIds) : MarkRespondedUpdate(id) /\ Frame
    \/ MarkRespondedInsert /\ Frame

\* Scan invocations running concurrently (two Lambda invocations, or the
\* Lambda and run_scan.py) against the one database.
NextScan ==
    \/ \E p \in Procs : ScanStep(p)
    \/ Tick /\ Frame

SpecScan == Init /\ [][NextScan]_vars

\* One scan invocation at a time, the reviewers and the clock.
Next ==
    \/ ScanStep(1)
    \/ ReviewStep
    \/ Tick /\ Frame

Spec == Init /\ [][Next]_vars

(***************************************************************************)
(* lambda_handler around scan_and_notify. An exception raised inside       *)
(* scan_and_notify (a store statement that fails for good, a Slack call    *)
(* that raises something other than SlackApiError) is caught by            *)
(* lambda_handler alone, which answers 500 with str(e).                    *)
(***************************************************************************)
\* return {"statusCode": 200, "body": {"success": True, "results": results}}
Ok200(f) ==
    [called |-> TRUE, statusCode |-> 200, success |-> TRUE,
     results |-> [subreddits_scanned |-> f.subreddits_scanned,
                  posts_scanned |-> f.posts_scanned,
                  opportunities_found |-> f.opportunities_found,
                  notifications_sent |-> f.notifications_sent,
                  errors |-> f.errors,
                  opportunities_expired |-> f.opportunities_expired]]

\* return {"statusCode": 500, "body": {"success": False, "error": str(e)}}
Err500 ==
    [called |-> TRUE, statusCode |-> 500, success |-> FALSE, error |-> "error"]

\* the groups lambda_handler and scan_and_notify leave alone
FrameLambda ==
    UNCHANGED <<matchVars, engVars, monVars, ordVars, enrichVars, srcVars,
                lateVars>>

\* lambda_handler(event, context): the secrets are read and scan_and_notify starts
LambdaStart(results) ==
    /\ ScanStart(1, results)
    /\ response' = [called |-> FALSE]
    /\ UNCHANGED slack_up
    /\ FrameLambda

\* get_secrets() raises
SecretsFail ==
    /\ scan[1].pc = "idle"
    /\ response' = Err500
    /\ UNCHANGED <<storeVars, slack_up>>
    /\ FrameLambda

\* a statement of the store raises (the retries of the connection are used up,
\* or the statement is the sweep, which has none)
StoreRaise ==
    /\ scan[1].pc \in {"exists", "create", "update_ts", "expire"}
    /\ scan' = [scan EXCEPT ![1] = IdleFrame]
    /\ response' = Err500
    /\ UNCHANGED <<opportunities, responses, now, handler, responder,
                   slack_posts, create_log, slack_up>>
    /\ FrameLambda

\* post_opportunity raises: chat_postMessage failed with an exception that is
\* not a SlackApiError (the connection failed, the request timed out)
PostRaise ==
    /\ scan[1].pc = "post"
    /\ slack_posts' = [slack_posts EXCEPT ![ToPost(scan[1])[scan[1].k].reddit_id] = @ + 1]
    /\ scan' = [scan EXCEPT ![1] = IdleFrame]
    /\ response' = Err500
    /\ UNCHANGED <<opportunities, responses, now, handler, responder,
                   create_log, slack_up>>
    /\ FrameLambda

\* scan_and_notify returns its results and lambda_handler answers 200
LambdaReturn ==
    /\ Return(1)
    /\ response' = Ok200(scan[1])
    /\ UNCHANGED slack_up
    /\ FrameLambda

\* a step of scan_and_notify between its start and its end
LambdaScanStep ==
    /\ \/ Exists(1)
       \/ Create(1)
       \/ \E ok \in BOOLEAN : Post(1, ok)
       \/ UpdateTs(1)
       \/ Expire(1)
    /\ UNCHANGED lambdaVars
    /\ FrameLambda

NextLambda ==
    \/ \E r1, r2 \in ScanResults : LambdaStart(<<r1, r2>>)
    \/ SecretsFail
    \/ LambdaScanStep
    \/ StoreRaise
    \/ PostRaise
    \/ LambdaReturn

SpecLambda == Init /\ [][NextLambda]_vars

(***************************************************************************)
(* scan_and_notify with the max_slack_posts of the trigger event.          *)
(***************************************************************************)
\* event.get("max_slack_posts", 10): a count of posts
MaxSlackPosts == {0, 1, 2, DefaultMaxSlackPosts}

\* scan_and_notify(event) is invoked with max_slack_posts in the event
CapStart(results, max_slack_posts) ==
    /\ scan[1].pc = "idle"
    /\ scan' = [scan EXCEPT ![1] =
                  ScanLoop([IdleFrame EXCEPT
                               !.scan_results = results,
                               !.max_slack_posts = max_slack_posts])]
    /\ UNCHANGED <<opportunities, responses, now, handler, responder,
                   slack_posts, create_log, lambdaVars>>
    /\ FrameLambda

CapReturn == Return(1) /\ UNCHANGED lambdaVars /\ FrameLambda

NextCap ==
    \/ \E r1, r2 \in ScanResults, n \in MaxSlackPosts : CapStart(<<r1, r2>>, n)
    \/ LambdaScanStep
    \/ CapReturn

SpecCap == Init /\ [][NextCap]_vars

(***************************************************************************)
(* Scan invocations one after the other, on schedule, with a Slack API     *)
(* that fails with SlackApiError for a while and then recovers.            *)
(***************************************************************************)
\* the Slack API recovers
SlackRecovers ==
    /\ ~slack_up
    /\ slack_up' = TRUE
    /\ UNCHANGED <<storeVars, response>>
    /\ FrameLambda

\* a step of a scan invocation; chat_postMessage fails only while Slack is down
LiveScanStep ==
    /\ \/ \E r \in ScanResults : ScanStart(1, <<r>>)
       \/ Exists(1)
       \/ Create(1)
       \/ \E ok \in BOOLEAN : (ok \/ ~slack_up) /\ Post(1, ok)
       \/ UpdateTs(1)
       \/ Expire(1)
       \/ Return(1)
    /\ UNCHANGED lambdaVars
    /\ FrameLambda

NextLive == LiveScanStep \/ SlackRecovers

\* every invocation runs to its end, invocations keep coming, and Slack recovers
SpecLive ==
    Init /\ [][NextLive]_vars /\ WF_vars(LiveScanStep) /\ WF_vars(SlackRecovers)

(***************************************************************************)
(* KeywordMatcher. A text is a sequence of characters. Scores are kept in  *)
(* hundredths (what round(x, 2) returns) and thousandths (before it).      *)
(***************************************************************************)
Chars == {"a", "b", "A", " "}

\* str.lower()
Lower(c) == IF c = "A" THEN "a" ELSE IF c = "B" THEN "b" ELSE c

LowerText(text) == [i \in DOMAIN text |-> Lower(text[i])]

\* \w of the regular expression
IsWordChar(c) == c \notin {" ", "%"}

\* \b at the gap before text[pos]: a word character on exactly one side
WordBoundary(text, pos) ==
    LET before == pos > 1 /\ IsWordChar(text[pos - 1])
        after  == pos <= Len(text) /\ IsWordChar(text[pos])
    IN before # after

\* rf"\b{re.escape(phrase)}\b" with re.IGNORECASE matches at text[pos]
PatternMatchesAt(phrase, text, pos) ==
    /\ pos + Len(phrase) - 1 <= Len(text)
    /\ WordBoundary(text, pos)
    /\ \A j \in 1..Len(phrase) : Lower(text[pos + j - 1]) = Lower(phrase[j])
    /\ WordBoundary(text, pos + Len(phrase))

\* len(pattern.findall(text)): the matches from pos on, left to right, not overlapping
RECURSIVE FindallFrom(_, _, _)
FindallFrom(phrase, text, pos) ==
    IF pos > Len(text) THEN 0
    ELSE IF PatternMatchesAt(phrase, text, pos)
         THEN 1 + FindallFrom(phrase, text, pos + Len(phrase))
         ELSE FindallFrom(phrase, text, pos + 1)

findall(phrase, text) == FindallFrom(phrase, text, 1)

\* the keywords given to KeywordMatcher: category -> phrases, in dict order
keywords ==
    << [category |-> "miami_specific",  phrases |-> << <<"a">> >>],
       [category |-> "wholesaling",     phrases |-> << <<"a", "b">>, <<"b">> >>],
       [category |-> "deal_types",      phrases |-> << <<"a", " ", "b">> >>],
       [category |-> "florida_markets", phrases |-> << <<"B", "A">> >>] >>

\* _compile_patterns: the (pattern, phrase) pairs in the order match visits them
RECURSIVE CompiledFrom(_)
CompiledFrom(kw) ==
    IF kw = <<>> THEN <<>>
    ELSE [k \in 1..Len(Head(kw).phrases) |->
             [category |-> Head(kw).category, phrase |-> Head(kw).phrases[k]]]
         \o CompiledFrom(Tail(kw))

compiled_patterns == CompiledFrom(keywords)

\* title_matches and body_matches of every pattern
CountAll(title, text) ==
    [k \in DOMAIN compiled_patterns |->
        [title_matches |-> findall(compiled_patterns[k].phrase, LowerText(title)),
         body_matches  |-> findall(compiled_patterns[k].phrase, LowerText(text))]]

\* a hit recorded although the phrase occurs nowhere
IsHit_always(title_matches, body_matches) == TRUE

\* if title_matches > 0 or body_matches > 0
IsHit(title_matches, body_matches) == title_matches > 0 \/ body_matches > 0

\* title matches weighted like body matches
keyword_score_flat(category, title_matches, body_matches) ==
    LET base == title_matches * 100 + body_matches * 100
    IN IF category = "miami_specific" THEN (base * 13) \div 10 ELSE base

\* keyword_score = title_matches * 1.5 + body_matches, times 1.3 for
\* miami_specific; in hundredths
keyword_score(category, title_matches, body_matches) ==
    LET base == title_matches * 150 + body_matches * 100
    IN IF category = "miami_specific" THEN (base * 13) \div 10 ELSE base

\* the loop of match over the patterns from k on
RECURSIVE MatchLoop(_, _, _)
MatchLoop(counts, k, acc) ==
    IF k > Len(compiled_patterns) THEN acc
    ELSE LET pat == compiled_patterns[k]
             tm  == counts[k].title_matches
             bm  == counts[k].body_matches
         IN IF IsHit(tm, bm)
            THEN MatchLoop(counts, k + 1,
                    [matched_keywords |->
                        Append(acc.matched_keywords,
                            [phrase |-> pat.phrase, category |-> pat.category,
                             title_matches |-> tm, body_matches |-> bm,
                             score |-> keyword_score(pat.category, tm, bm)]),
                     matched_categories |-> acc.matched_categories \cup {pat.category},
                     total_score |-> acc.total_score
                                     + keyword_score(pat.category, tm, bm)])
            ELSE MatchLoop(counts, k + 1, acc)

Min(x, y) == IF x <= y THEN x ELSE y

\* round(x, 2) of x thousandths, in hundredths: the nearest hundredth. A value
\* exactly halfway has no exact binary float, so the float passed to round lies
\* just below or just above it and either neighbour can come out
\* (round(0.295, 2) = 0.3 for 1.95 / 10 + 0.1, round(0.825, 2) = 0.82).
Round2(x) ==
    IF x % 10 = 5 THEN {x \div 10, x \div 10 + 1} ELSE {(x + 5) \div 10}

\* min(normalized_score + category_bonus, 1.0), in thousandths
final_score(total_score, n_categories) ==
    LET normalized_score == Min(total_score, 1000)
        category_bonus   == Min(n_categories * 100, 300)
    IN Min(normalized_score + category_bonus, 1000)

\* the MatchResults match can return once findall has counted
MatchOutcomes(counts) ==
    LET acc == MatchLoop(counts, 1,
                   [matched_keywords |-> <<>>, matched_categories |-> {},
                    total_score |-> 0])
    IN {[called     |-> TRUE,
         matched    |-> Len(acc.matched_keywords) > 0,
         score      |-> s,
         keywords   |-> acc.matched_keywords,
         categories |-> acc.matched_categories] :
        s \in Round2(final_score(acc.total_score,
                                 Cardinality(acc.matched_categories)))}

\* KeywordMatcher.match(text, title)
match(text, title) == MatchOutcomes(CountAll(title, text))

Texts == UNION {[1..n -> Chars] : n \in 0..MaxTextLen}

CountVectors ==
    [DOMAIN compiled_patterns ->
        [title_matches : 0..MaxTitleHits, body_matches : 0..MaxBodyHits]]

\* a caller calls matcher.match(text, title)
Match ==
    /\ ~mresult.called
    /\ mcounts' = CountAll(mtitle, mtext)
    /\ mresult' \in match(mtext, mtitle)
    /\ UNCHANGED <<mtitle, mtext, storeVars, engVars, restVars>>

\* the scoring part of match, run on given findall counts
MatchCounted ==
    /\ ~mresult.called
    /\ mresult' \in MatchOutcomes(mcounts)
    /\ UNCHANGED <<mtitle, mtext, mcounts, storeVars, engVars, restVars>>

\* match on every title and body
InitMatch ==
    /\ mtitle \in Texts
    /\ mtext \in Texts
    /\ mcounts = <<>>
    /\ mresult = [called |-> FALSE]
    /\ InitStore /\ IdleEng /\ IdleRest

SpecMatch == InitMatch /\ [][Match]_vars

\* match on every vector of hit counts
InitCounted ==
    /\ mtitle = <<>>
    /\ mtext = <<>>
    /\ mcounts \in CountVectors
    /\ mresult = [called |-> FALSE]
    /\ InitStore /\ IdleEng /\ IdleRest

SpecCounted == InitCounted /\ [][MatchCounted]_vars

(***************************************************************************)
(* KeywordMatcher built from the same taxonomy declared in another order.  *)
(* An order is the sequence in which match then visits the phrases: the    *)
(* categories in their new order, the phrases of each in their new order.  *)
(***************************************************************************)
\* the orders in which a dict of category -> phrases can declare the phrases:
\* the phrases of one category stay together
TaxonomyOrders ==
    {o \in [DOMAIN compiled_patterns -> DOMAIN compiled_patterns] :
        /\ \A i, j \in DOMAIN o : i # j => o[i] # o[j]
        /\ \A i, j, l \in DOMAIN o :
              (i < j /\ j < l /\ compiled_patterns[o[i]].category
                                 = compiled_patterns[o[l]].category)
              => compiled_patterns[o[j]].category = compiled_patterns[o[i]].category}

DeclaredOrder == [k \in DOMAIN compiled_patterns |-> k]

\* the keyword_score values match adds to total_score, in the order it adds them
RECURSIVE Addends(_, _, _)
Addends(order, counts, k) ==
    IF k > Len(order) THEN <<>>
    ELSE LET pat == compiled_patterns[order[k]]
             tm  == counts[order[k]].title_matches
             bm  == counts[order[k]].body_matches
         IN IF IsHit(tm, bm)
            THEN <<keyword_score(pat.category, tm, bm)>>
                 \o Addends(order, counts, k + 1)
            ELSE Addends(order, counts, k + 1)

\* total_score += keyword_score gives the same float for both sequences: they
\* are equal, or differ by the order of the first two addends (x + y = y + x)
SameFloatSum(s1, s2) ==
    \/ s1 = s2
    \/ /\ Len(s1) >= 2
       /\ s2 = <<s1[2], s1[1]>> \o SubSeq(s1, 3, Len(s1))

\* the loop of match over the patterns in the given order, from the k-th on
RECURSIVE MatchLoopIn(_, _, _, _)
MatchLoopIn(order, counts, k, acc) ==
    IF k > Len(order) THEN acc
    ELSE LET pat == compiled_patterns[order[k]]
             tm  == counts[order[k]].title_matches
             bm  == counts[order[k]].body_matches
         IN IF IsHit(tm, bm)
            THEN MatchLoopIn(order, counts, k + 1,
                    [matched_keywords |->
                        Append(acc.matched_keywords,
                            [phrase |-> pat.phrase, category |-> pat.category,
                             title_matches |-> tm, body_matches |-> bm,
                             score |-> keyword_score(pat.category, tm, bm)]),
                     matched_categories |-> acc.matched_categories \cup {pat.category},
                     total_score |-> acc.total_score
                                     + keyword_score(pat.category, tm, bm)])
            ELSE MatchLoopIn(order, counts, k + 1, acc)

\* the MatchResults of a matcher whose taxonomy is declared in the given order
MatchOutcomesIn(order, counts) ==
    LET acc == MatchLoopIn(order, counts, 1,
                   [matched_keywords |-> <<>>, matched_categories |-> {},
                    total_score |-> 0])
    IN {[called     |-> TRUE,
         matched    |-> Len(acc.matched_keywords) > 0,
         score      |-> s,
         keywords   |-> acc.matched_keywords,
         categories |-> acc.matched_categories] :
        s \in Round2(final_score(acc.total_score,
                                 Cardinality(acc.matched_categories)))}

OrderCountVectors ==
    [DOMAIN compiled_patterns ->
        [title_matches : 0..MaxTitleHits, body_matches : 0..1]]

\* match is called on the matcher as declared and on the one declared in the
\* order morder, with the same title and body; where the floats added are the
\* same in the same order, the two calls round alike
MatchBoth ==
    /\ ~mresult.called
    /\ \E r1 \in MatchOutcomes(mcounts), r2 \in MatchOutcomesIn(morder, mcounts) :
          /\ SameFloatSum(Addends(DeclaredOrder, mcounts, 1),
                          Addends(morder, mcounts, 1))
             => r2.score = r1.score
          /\ mresult' = r1
          /\ mresult2' = r2
    /\ UNCHANGED <<mtitle, mtext, mcounts, morder, storeVars, engVars, monVars,
                   lambdaVars, enrichVars, srcVars,
                   lateVars>>

InitOrder ==
    /\ mtitle = <<>>
    /\ mtext = <<>>
    /\ mcounts \in OrderCountVectors
    /\ mresult = [called |-> FALSE]
    /\ morder \in TaxonomyOrders
    /\ mresult2 = [called |-> FALSE]
    /\ InitStore /\ IdleEng /\ IdleMon /\ IdleLambda /\ IdleEnrich /\ IdleSrc
    /\ IdleLate

SpecOrder == InitOrder /\ [][MatchBoth]_vars

(***************************************************************************)
(* calculate_engagement_score. age_hours is in tenths of an hour,          *)
(* keyword_score in hundredths, the unrounded final_score in thousandths.  *)
(***************************************************************************)
\* a post counted as fresh at exactly 6 hours
freshness_bonus_inclusive(age_hours) ==
    IF age_hours <= 60 THEN 200 ELSE IF age_hours < 120 THEN 100 ELSE 0

\* freshness_bonus = 0.2 if age_hours < 6 else (0.1 if age_hours < 12 else 0)
freshness_bonus(age_hours) ==
    IF age_hours < 60 THEN 200 ELSE IF age_hours < 120 THEN 100 ELSE 0

\* engagement_score: 0.15 for 5 <= upvotes <= 100, 0.15 for 3 <= comments <= 50
engagement_score(upvotes, comments) ==
    (IF 5 <= upvotes /\ upvotes <= 100 THEN 150 ELSE 0)
    + (IF 3 <= comments /\ comments <= 50 THEN 150 ELSE 0)

\* the weighted sum without min(final_score, 1.0)
capped_final_score_no_cap(post, kw_score) ==
    kw_score * 6 + engagement_score(post.upvotes, post.comment_count)
    + freshness_bonus(post.post_age_hours)

\* final_score = min(keyword_score * 0.6 + engagement_score + freshness_bonus, 1.0)
capped_final_score(post, kw_score) ==
    Min(kw_score * 6 + engagement_score(post.upvotes, post.comment_count)
        + freshness_bonus(post.post_age_hours), 1000)

\* level, decided on the unrounded final_score
engagement_level(final) ==
    IF final >= 700 THEN "high" ELSE IF final >= 400 THEN "medium" ELSE "low"

\* the tuples (round(final_score, 2), level) the function can return
calculate_engagement_score(post, kw_score) ==
    LET final == capped_final_score(post, kw_score)
    IN {[called |-> TRUE, score |-> s, level |-> engagement_level(final)] :
        s \in Round2(final)}

Upvotes  == {0, 4, 5, 15, 100, 101}
Comments == {0, 2, 3, 8, 50, 51}
Ages     == {0, 35, 59, 60, 119, 120, 240}
KeywordScores == 0..100

Posts == [upvotes : Upvotes, comment_count : Comments, post_age_hours : Ages,
          called : {TRUE}]

\* a caller calls calculate_engagement_score(post, keyword_score)
Engage ==
    /\ ~eresult.called
    /\ eresult' \in calculate_engagement_score(epost, ekeyword)
    /\ UNCHANGED <<epost, ekeyword, storeVars, matchVars, restVars>>

\* the scorer on every post and keyword score
InitEng ==
    /\ epost \in Posts
    /\ ekeyword \in KeywordScores
    /\ eresult = [called |-> FALSE]
    /\ InitStore /\ IdleMatch /\ IdleRest

SpecEng == InitEng /\ [][Engage]_vars

(***************************************************************************)
(* SubredditMonitor: scan_subreddit and scan_all_subreddits. A post is     *)
(* identified by its position in the stream the Post Source delivers; the  *)
(* stream ends normally or with an exception raised by the source.         *)
(***************************************************************************)
\* ScannerConfig.post_max_age_hours = 24, in tenths of an hour
post_max_age_hours == 240

\* ScannerConfig.min_relevance_score = 0.6, in hundredths
min_relevance_score == 60

\* the subreddits scan_all_subreddits goes through
Scopes == <<"s1", "s2">>

\* min_score = min_score or self.config.min_relevance_score: None (-1) and 0
\* are both falsy
EffectiveMinScore(ms) == IF ms = -1 \/ ms = 0 THEN min_relevance_score ELSE ms

\* no age filter
TooOld_never(post) == FALSE

\* if post.get("post_age_hours", 0) > self.config.post_max_age_hours: continue
TooOld(post) == post.post_age_hours > post_max_age_hours

\* if post.get("locked") or post.get("archived"): continue
LockedOrArchived(post) == post.locked \/ post.archived

\* if post.get("nsfw"): continue
Nsfw(post) == post.nsfw

\* the error of the stream left out of the ScanResult
CaughtError_dropped(s) == None

\* except Exception as e: errors = str(e)
CaughtError(s) == s.error

\* one iteration of the loop of scan_subreddit, on the post the source yields
\* as its i-th: the values of the locals after it (match and the scorer may
\* round either way)
ScanPost(post, i, ms, acc) ==
    LET a1 == [acc EXCEPT !.posts_scanned = @ + 1]
    IN IF TooOld(post) THEN {a1}
       ELSE IF LockedOrArchived(post) THEN {a1}
       ELSE IF Nsfw(post) THEN {a1}
       ELSE UNION {
           LET a2 == [a1 EXCEPT !.match_calls = Append(@, i)]
           IN IF ~m.matched THEN {a2}
              ELSE {LET a3 == [a2 EXCEPT !.score_calls = Append(@, i)]
                    IN IF e.score < ms THEN a3
                       ELSE [a3 EXCEPT !.opportunities =
                               Append(@, [reddit_id |-> i,
                                          relevance_score |-> e.score,
                                          engagement_potential |-> e.level,
                                          match_score |-> m.score])]
                    : e \in calculate_engagement_score(post, m.score)}
           : m \in match(post.body, post.title)}

\* the ScanResult scan_subreddit builds once the loop is left
BuildResult(subreddit_name, acc, errors) ==
    [called |-> TRUE,
     subreddit |-> subreddit_name,
     posts_scanned |-> acc.posts_scanned,
     opportunities_found |-> Len(acc.opportunities),
     opportunities |-> SortDesc(acc.opportunities),
     errors |-> errors]

\* the posts a source delivers
MonTitles == {<<"a", " ", "b">>, <<"b">>, <<" ">>}
MonAges   == {35, 240, 241}

MonPosts ==
    {p \in [title : MonTitles, body : {<<>>}, upvotes : {15}, comment_count : {0},
            post_age_hours : MonAges, locked : BOOLEAN, archived : BOOLEAN,
            nsfw : BOOLEAN, called : {TRUE}] :
        \/ ~p.locked /\ ~p.archived /\ ~p.nsfw
        \/ /\ p.post_age_hours = 35
           /\ Cardinality({f \in {"l", "a", "n"} :
                 \/ f = "l" /\ p.locked
                 \/ f = "a" /\ p.archived
                 \/ f = "n" /\ p.nsfw}) = 1}

\* the exceptions a source raises, as str(e)
FetchErrors == {"timeout", ""}

MinScores == {-1, 0, 50, 70}

\* the locals of scan_subreddit and the stream, as the loop is entered or goes on
CurrentAcc == IF monitor.scanning THEN monitor.acc ELSE EmptyAcc
CurrentPosts == IF monitor.scanning THEN stream.posts ELSE <<>>

\* for post in self.reddit.get_subreddit_posts(...): the source yields a post
NextPost(post) ==
    /\ monitor.next <= Len(Scopes)
    /\ Len(CurrentPosts) < MaxStream
    /\ stream' = [posts |-> Append(CurrentPosts, post), error |-> None]
    /\ \E acc \in ScanPost(post, Len(CurrentPosts) + 1,
                           EffectiveMinScore(min_score), CurrentAcc) :
          monitor' = [monitor EXCEPT !.scanning = TRUE, !.acc = acc,
                                     !.result = [called |-> FALSE]]
    /\ UNCHANGED <<min_score, storeVars, matchVars, engVars, lambdaVars,
                   ordVars, enrichVars, srcVars, lateVars>>

\* the stream ends, normally (error = None) or with an exception of the source:
\* scan_subreddit returns its ScanResult and scan_all_subreddits yields it
EndOfStream(error) ==
    /\ monitor.next <= Len(Scopes)
    /\ stream' = [posts |-> CurrentPosts, error |-> error]
    /\ monitor' = [next |-> monitor.next + 1,
                   scanning |-> FALSE,
                   errors_seen |-> IF error # None THEN monitor.errors_seen + 1
                                   ELSE monitor.errors_seen,
                   result |-> BuildResult(Scopes[monitor.next], CurrentAcc,
                                          CaughtError(stream')),
                   acc |-> CurrentAcc]
    /\ UNCHANGED <<min_score, storeVars, matchVars, engVars, lambdaVars,
                   ordVars, enrichVars, srcVars, lateVars>>

ScanAll ==
    \/ \E post \in MonPosts : NextPost(post)
    \/ \E error \in FetchErrors \cup {None} : EndOfStream(error)

InitMon ==
    /\ min_score \in MinScores
    /\ stream = [posts |-> <<>>, error |-> None]
    /\ monitor = IdleMonitor
    /\ InitStore /\ IdleMatch /\ IdleEng
    /\ IdleLambda /\ IdleOrd /\ IdleEnrich /\ IdleSrc /\ IdleLate

SpecMon == InitMon /\ [][ScanAll]_vars

(***************************************************************************)
(* RelevanceScorer.analyze_post (src/src/analyzer/relevance_scorer.py):    *)
(* the prompt is formatted, Bedrock is called and its answer parsed; the   *)
(* call and the parsing are inside one try whose except returns defaults.  *)
(* A body is its length; an absent relevance_score is -1 and an absent     *)
(* engagement_potential is None.                                           *)
(***************************************************************************)
\* body=post.get("body", "")[:2000]
BodyLimit == 2000

\* post.get("matched_keywords", [])[:5]
KeywordLimit == 5

\* post.get("relevance_score", 0.5), in hundredths
DefaultRelevance == 50

\* post.get("engagement_potential", "medium")
DefaultPotential == "medium"

\* the `phrase` of each matched keyword of a record
KeywordLists ==
    {<<>>, <<"k1">>, <<"k1", "k2", "k3", "k4", "k5">>,
     <<"k1", "k2", "k3", "k4", "k5", "k6">>}

\* opportunity records as scan_subreddit builds them, and the record of
\* test_ai_analysis, which has neither a relevance_score nor a potential
EnrichPosts ==
    {[reddit_id |-> "r1", body_len |-> b, matched_keywords |-> k,
      relevance_score |-> s.score, engagement_potential |-> s.level] :
        b \in {0, BodyLimit, BodyLimit + 1},
        k \in KeywordLists,
        s \in ([score : {45, 80}, level : {"low", "high"}]
               \cup {[score |-> -1, level |-> None]})}

\* ANALYSIS_PROMPT.format(...): the body cut to 2000 characters, the
\* phrases of the first five keywords
FormatPrompt(post) ==
    [body_len |-> IF post.body_len > BodyLimit THEN BodyLimit
                  ELSE post.body_len,
     matched_keywords |->
        SubSeq(post.matched_keywords, 1,
               IF Len(post.matched_keywords) > KeywordLimit
               THEN KeywordLimit ELSE Len(post.matched_keywords))]

\* what the model wrote as JSON: a full analysis, {}, an array, or no JSON
Payloads == {"object", "empty_object", "array", "invalid"}

\* how the text carries it: alone, in a ```json block, in a ``` block,
\* between prose, or prose with no brace at all
Forms == {"json", "fenced_json", "fenced", "embedded", "prose"}

Contents ==
    {c \in [form : Forms, payload : Payloads] :
        /\ c.form = "json" => c.payload # "invalid"
        /\ c.form = "prose" => c.payload = "invalid"}

\* the analysis the model returns when it answers in full
ModelAnalysis ==
    [relevance_score |-> 90, engagement_potential |-> "high",
     user_intent |-> "seeking_help", suggested_angle |-> "angle",
     red_flags |-> <<>>, should_engage |-> TRUE, reasoning |-> <<"fit">>,
     draft_response |-> "draft"]

\* json.loads of a payload: a dict, a list, or JSONDecodeError
Loads(payload) ==
    CASE payload = "object"       -> [raised |-> FALSE, kind |-> "dict",
                                      value |-> ModelAnalysis]
      [] payload = "empty_object" -> [raised |-> FALSE, kind |-> "dict",
                                      value |-> <<>>]
      [] payload = "array"        -> [raised |-> FALSE, kind |-> "list",
                                      value |-> <<>>]
      [] OTHER                    -> [raised |-> TRUE,
                                      error |-> "JSONDecodeError"]

\* _parse_json_response: direct parse, then the fenced block, then the text
\* from the first `{` to the last `}`, else the JSONDecodeError is re-raised
ParseJsonResponse(content) ==
    CASE content.form = "json" -> Loads(content.payload)
      [] content.form \in {"fenced_json", "fenced"} -> Loads(content.payload)
      [] content.form = "embedded" ->
            IF content.payload \in {"object", "empty_object"}
            THEN Loads(content.payload)
            ELSE [raised |-> TRUE, error |-> "JSONDecodeError"]
      [] OTHER -> [raised |-> TRUE, error |-> "JSONDecodeError"]

\* what invoke_model does: it raises (with the AWSConfig of config.py, which
\* has no bedrock_model_id, the call raises AttributeError before it is
\* sent), or its body is not JSON, or the content list is empty, or its
\* first block has no text, or it has a text
BedrockAnswers ==
    {[kind |-> "raise", error |-> e] :
        e \in {"ThrottlingException", "NoCredentialsError",
               "AttributeError"}}
    \cup {[kind |-> "bad_body"], [kind |-> "no_content"], [kind |-> "no_text"]}
    \cup {[kind |-> "text", content |-> c] : c \in Contents}

\* the body of the try: the analysis returned, or the exception raised
TryBody(answer) ==
    CASE answer.kind = "raise"      -> [raised |-> TRUE, error |-> answer.error]
      [] answer.kind = "bad_body"   -> [raised |-> TRUE,
                                        error |-> "JSONDecodeError"]
      [] answer.kind = "no_content" -> [raised |-> TRUE,
                                        error |-> "IndexError"]
      [] OTHER ->
            LET parsed == IF answer.kind = "no_text"
                          THEN Loads("empty_object")
                          ELSE ParseJsonResponse(answer.content)
            IN  IF parsed.raised THEN parsed
                ELSE IF parsed.kind # "dict"
                     THEN [raised |-> TRUE, error |-> "AttributeError"]
                     ELSE [raised |-> FALSE, value |-> parsed.value]

\* a handler that catches the errors of the Bedrock client only
Caught_client_only(error) ==
    error \in {"ThrottlingException", "NoCredentialsError"}

\* except Exception
Caught(error) == TRUE

\* the dict the except branch returns
Fallback(post, error) ==
    [relevance_score |-> IF post.relevance_score = -1 THEN DefaultRelevance
                         ELSE post.relevance_score,
     engagement_potential |-> IF post.engagement_potential = None
                              THEN DefaultPotential
                              ELSE post.engagement_potential,
     user_intent |-> "unknown", suggested_angle |-> "",
     red_flags |-> <<"Analysis failed">>, should_engage |-> FALSE,
     reasoning |-> <<"Analysis error: ", error>>, draft_response |-> ""]

\* analyze_post(post) when Bedrock behaves as `answer`
analyze_post(post, answer) ==
    LET prompt == FormatPrompt(post)
        body   == TryBody(answer)
    IN  IF ~body.raised
        THEN [called |-> TRUE, raised |-> FALSE, failed |-> FALSE,
              prompt |-> prompt, analysis |-> body.value]
        ELSE IF Caught(body.error)
        THEN [called |-> TRUE, raised |-> FALSE, failed |-> TRUE,
              prompt |-> prompt, analysis |-> Fallback(post, body.error)]
        ELSE [called |-> TRUE, raised |-> TRUE, failed |-> TRUE,
              prompt |-> prompt, analysis |-> <<>>]

AnalyzePost ==
    \E post \in EnrichPosts, answer \in BedrockAnswers :
        /\ apost' = [called |-> TRUE, post |-> post]
        /\ aresult' = analyze_post(post, answer)
        /\ UNCHANGED <<storeVars, matchVars, engVars, monVars, lambdaVars,
                       ordVars, srcVars, lateVars>>

SpecEnrich == Init /\ [][AnalyzePost]_vars

(***************************************************************************)
(* The Post Sources: RedditClient.get_subreddit_posts (PRAW),              *)
(* WebSearchClient._search_subreddit (Reddit's JSON API) and               *)
(* StealthRedditClient._parse_search_results (HTML of old.reddit.com).     *)
(* A batch is the sequence of raw records the source received, each named  *)
(* by what is wrong with it; a delivered post is named by the position of  *)
(* its record in the batch.                                                *)
(***************************************************************************)
Sources == {"praw", "web_search", "stealth_browser"}

\* a Submission is well formed, or reading one of its attributes raises
\* (created_utc is not a number, the listing entry lacks an attribute)
\* a child of the JSON listing is well formed, or a field has the wrong type
\* (selftext is null), or its "data" is null, or it is not an object
\* a search result is well formed, or has neither data-fullname nor id, or
\* an attribute has a type the parsing does not expect
RawKinds(source) ==
    CASE source = "praw"       -> {"ok", "bad_attribute"}
      [] source = "web_search" -> {"ok", "bad_field", "null_data",
                                   "not_an_object"}
      [] OTHER                 -> {"ok", "no_id", "bad_element"}

\* the batches of at most MaxBatch records
Batches(source) ==
    UNION {[1..n -> RawKinds(source)] : n \in 0..MaxBatch}

\* the positions of `records` in `among`, in order
Positions(records, among) ==
    SelectSeq([i \in 1..Len(records) |-> i], LAMBDA i : i \in among)

\* _submission_to_dict raises for a submission whose attribute cannot be read
SubmissionRaises(kind) == kind = "bad_attribute"

\* get_subreddit_posts, consumed to its end: the posts yielded, and the
\* exception the generator raises (the except logs it and raises it again)
get_subreddit_posts(records) ==
    LET bad == {i \in 1..Len(records) : SubmissionRaises(records[i])}
    IN  IF bad = {}
        THEN [delivered |-> Positions(records, 1..Len(records)),
              error |-> None]
        ELSE LET first == CHOOSE i \in bad : \A j \in bad : i <= j
             IN  [delivered |-> Positions(records, 1..(first - 1)),
                  error |-> "AttributeError"]

\* _parse_post: the post, or None when anything raises (also for a
\* post_data that is None)
parse_post(kind) == IF kind = "ok" THEN "post" ELSE None

\* child.get("data", {}) raises for a child that is not an object
ChildRaises(kind) == kind = "not_an_object"

\* _search_subreddit: the parsed posts, or [] when anything in the request
\* or the loop raises
search_subreddit(children) ==
    IF \E i \in 1..Len(children) : ChildRaises(children[i])
    THEN [delivered |-> <<>>, error |-> None]
    ELSE [delivered |->
            Positions(children,
                      {i \in 1..Len(children) : parse_post(children[i]) # None}),
          error |-> None]

\* _parse_search_results: `continue` for a result without an id and for a
\* result whose parsing raises
parse_search_results(posts) ==
    [delivered |-> Positions(posts, {i \in 1..Len(posts) : posts[i] = "ok"}),
     error |-> None]

FrameSource ==
    UNCHANGED <<storeVars, matchVars, engVars, monVars, lambdaVars, ordVars,
                enrichVars, lateVars>>

Deliver(source, records, outcome) ==
    /\ batch' = [called |-> TRUE, source |-> source, records |-> records]
    /\ sresult' = [called |-> TRUE, delivered |-> outcome.delivered,
                   error |-> outcome.error]
    /\ FrameSource

FetchPraw ==
    \E records \in Batches("praw") :
        Deliver("praw", records, get_subreddit_posts(records))

FetchWebSearch ==
    \E records \in Batches("web_search") :
        Deliver("web_search", records, search_subreddit(records))

FetchStealth ==
    \E records \in Batches("stealth_browser") :
        Deliver("stealth_browser", records, parse_search_results(records))

NextSource == FetchPraw \/ FetchWebSearch \/ FetchStealth

SpecSource == Init /\ [][NextSource]_vars

(***************************************************************************)
(* SlackInteractionHandler.handle_interaction as one call: the dispatch on *)
(* action_id, the lookup and the update. The message cards carry the       *)
(* buttons approve_opportunity, reject_opportunity, edit_response and      *)
(* view_reddit (src/slack/message_builder.py); any other action_id is an   *)
(* unknown action.                                                         *)
(***************************************************************************)
ActionIds ==
    {"approve_opportunity", "reject_opportunity", "edit_response",
     "view_reddit", "mark_reviewed", "dismiss_opportunity", ""}

UserNames == {"alice", "bob"}

\* the branches of handle_interaction that reach update_status
UpdatesStatus(action_id) ==
    action_id \in {"approve_opportunity", "reject_opportunity"}

\* the table after handle_interaction(payload)
handle_interaction(rows, action_id, reddit_id, user_name) ==
    LET opportunity == get_by_reddit_id(rows, reddit_id)
    IN  IF UpdatesStatus(action_id) /\ opportunity # 0
        THEN update_status(rows, opportunity, ActionStatus(action_id),
                           user_name)
        ELSE rows

\* a scan stored a new opportunity
Stored(reddit_id) ==
    /\ ~exists(opportunities, reddit_id)
    /\ opportunities' = create_rows(opportunities, reddit_id, now)
    /\ interaction' = [called |-> FALSE]
    /\ UNCHANGED <<responses, now, scan, handler, responder, slack_posts,
                   create_log>>
    /\ UNCHANGED <<matchVars, engVars, monVars, lambdaVars, ordVars,
                   enrichVars, srcVars, dbVars, instVars, quickVars,
                   scopeVars>>

Interact(action_id, reddit_id, user_name) ==
    /\ interaction' = [called |-> TRUE, action_id |-> action_id,
                       reddit_id |-> reddit_id, user |-> user_name,
                       before |-> opportunities]
    /\ opportunities' = handle_interaction(opportunities, action_id,
                                           reddit_id, user_name)
    /\ UNCHANGED <<responses, now, scan, handler, responder, slack_posts,
                   create_log>>
    /\ UNCHANGED <<matchVars, engVars, monVars, lambdaVars, ordVars,
                   enrichVars, srcVars, dbVars, instVars, quickVars,
                   scopeVars>>

NextReview ==
    \/ \E r \in RedditIds : Stored(r)
    \/ \E a \in ActionIds, r \in RedditIds, u \in UserNames : Interact(a, r, u)

SpecReview == Init /\ [][NextReview]_vars

(***************************************************************************)
(* DatabaseConnection (src/src/database/connection.py): execute and        *)
(* execute_one run the statement under tenacity's                          *)
(* @retry(stop=stop_after_attempt(3), wait=wait_exponential(...)), which   *)
(* retries on any exception and raises RetryError after the last attempt;  *)
(* get_cursor itself rolls back and raises. The database fails the first   *)
(* `failures` attempts of a statement.                                     *)
(***************************************************************************)
\* stop_after_attempt(3)
StopAfterAttempt == 3

\* the operations of OpportunityQueries the scan and the handlers use
StoreOps ==
    {"create", "exists", "get_by_reddit_id", "update_status",
     "update_slack_ts", "expire_old_opportunities"}

\* every operation going through the retrying execute
Attempts_all_retried(op) == StopAfterAttempt

\* the attempts an operation gets: self.db.execute and self.db.execute_one
\* retry, `with self.db.get_cursor() as cursor` does not
AttemptsOf(op) ==
    IF op = "expire_old_opportunities" THEN 1 ELSE StopAfterAttempt

\* psycopg2 errors: the connection was lost (transient), a constraint or the
\* statement itself is wrong (not transient)
DbErrors == {"OperationalError", "ProgrammingError"}

\* wait_exponential(multiplier=1, min=1, max=10) before attempt n + 1, seconds
WaitBefore(n) == IF n = 1 THEN 1 ELSE IF n = 2 THEN 2 ELSE 4

FrameDb ==
    UNCHANGED <<storeVars, matchVars, engVars, monVars, lambdaVars, ordVars,
                enrichVars, srcVars, reviewVars, instVars, quickVars,
                scopeVars>>

\* an operation of the store is called
DbCall(op, failures, error) ==
    /\ dbcall' = [called |-> TRUE, op |-> op, failures |-> failures,
                  error |-> IF failures = 0 THEN None ELSE error,
                  attempts |-> 0, waited |-> 0, pc |-> "trying"]
    /\ FrameDb

\* one attempt: get_cursor, cursor.execute, commit; on an exception rollback,
\* then another attempt after the wait, or the exception leaves the call
DbAttempt ==
    /\ dbcall.called
    /\ dbcall.pc = "trying"
    /\ LET n == dbcall.attempts + 1
       IN dbcall' =
            IF n > dbcall.failures
            THEN [dbcall EXCEPT !.attempts = n, !.pc = "returned"]
            ELSE IF n < AttemptsOf(dbcall.op)
            THEN [dbcall EXCEPT !.attempts = n,
                                !.waited = @ + WaitBefore(n)]
            ELSE [dbcall EXCEPT !.attempts = n, !.pc = "raised"]
    /\ FrameDb

NextDb ==
    \/ \E op \in StoreOps, failures \in 0..MaxFailures, error \in DbErrors :
          DbCall(op, failures, error)
    \/ DbAttempt

SpecDb == Init /\ [][NextDb]_vars

(***************************************************************************)
(* KeywordMatcher instances. `self.keywords = keywords or KEYWORDS` keeps  *)
(* a reference: an instance built without keywords holds the module-level  *)
(* dict KEYWORDS of src/src/config.py itself, not a copy of it. A dict is  *)
(* the sequence of its (category, phrases) items in insertion order.       *)
(***************************************************************************)
DictHas(d, category) == \E k \in DOMAIN d : d[k].category = category

\* d[category], and [] for a category the dict lacks
DictGet(d, category) ==
    IF DictHas(d, category)
    THEN d[CHOOSE k \in DOMAIN d : d[k].category = category].phrases
    ELSE <<>>

\* d[category] = phrases
DictSet(d, category, phrases) ==
    IF DictHas(d, category)
    THEN [k \in DOMAIN d |->
            IF d[k].category = category
            THEN [category |-> category, phrases |-> phrases] ELSE d[k]]
    ELSE Append(d, [category |-> category, phrases |-> phrases])

\* a dict a caller passes to KeywordMatcher(keywords)
CustomKeywords == << [category |-> "custom", phrases |-> << <<"b", "a">> >>] >>

\* KeywordMatcher(keywords): None and {} are falsy and stand for KEYWORDS
\* `own` is the dict the instance holds when it is not KEYWORDS, `initial`
\* and `added` recall how the instance was built and what it was given
NewMatcher(kw, KEYWORDS) ==
    LET shared == kw = <<>>
        held   == IF shared THEN KEYWORDS ELSE kw
    IN  [shared |-> shared,
         own |-> IF shared THEN <<>> ELSE kw,
         compiled |-> held,
         initial |-> IF shared THEN keywords ELSE kw,
         added |-> <<>>]

\* self.keywords of an instance
KeywordsOf(m, KEYWORDS) == IF m.shared THEN KEYWORDS ELSE m.own

\* self._compiled_patterns[category] = [... for phrase in self.keywords[category]]
Recompiled(compiled, category, kw) ==
    DictSet(compiled, category, DictGet(kw, category))

\* self.keywords[category].extend(phrases), after the category was created
Extended(kw, category, phrases) ==
    DictSet(kw, category, DictGet(kw, category) \o phrases)

\* the hits match records with the patterns `compiled`: phrase, category and
\* the findall counts in the title and in the body
HitsOf(compiled, title, text) ==
    LET pats == CompiledFrom(compiled)
    IN  {[phrase |-> pats[k].phrase, category |-> pats[k].category,
          title_matches |-> findall(pats[k].phrase, LowerText(title)),
          body_matches |-> findall(pats[k].phrase, LowerText(text))] :
            k \in {j \in DOMAIN pats :
                     IsHit(findall(pats[j].phrase, LowerText(title)),
                           findall(pats[j].phrase, LowerText(text)))}}

\* match(text, title).categories
CategoriesHit(compiled, title, text) ==
    {h.category : h \in HitsOf(compiled, title, text)}

\* the phrases a caller adds, and the categories it adds them to
CustomPhrases == {<<"b", "b">>, <<"a", "%">>}
CustomCategories == {"wholesaling", "custom"}

\* the bodies the instances are asked to match
InstTexts ==
    {<<"b", "b">>, <<"a", "%", " ", "b">>, <<"a", " ", "b", "b">>,
     <<"b", "a">>, <<"a", "b", "b">>}

FrameInst ==
    UNCHANGED <<storeVars, matchVars, engVars, monVars, lambdaVars, ordVars,
                enrichVars, srcVars, reviewVars, dbVars, quickVars,
                scopeVars>>

\* KeywordMatcher() or KeywordMatcher(keywords) is constructed
Construct(kw) ==
    /\ Len(matchers.inst) < MaxInstances
    /\ matchers' = [matchers EXCEPT
                       !.inst = Append(@, NewMatcher(kw, matchers.KEYWORDS)),
                       !.last = [op |-> "init"]]
    /\ FrameInst

\* instance i: add_custom_keywords(category, phrases)
AddCustomKeywords(i, category, phrases) ==
    /\ i \in DOMAIN matchers.inst
    /\ matchers.adds < MaxAdds
    /\ LET m   == matchers.inst[i]
           kw  == Extended(KeywordsOf(m, matchers.KEYWORDS), category, phrases)
           new == [m EXCEPT !.own = IF m.shared THEN <<>> ELSE kw,
                            !.compiled = Recompiled(@, category, kw),
                            !.added = Append(@, [category |-> category,
                                                 phrases |-> phrases])]
       IN matchers' =
            [KEYWORDS |-> IF m.shared THEN kw ELSE matchers.KEYWORDS,
             inst |-> [matchers.inst EXCEPT ![i] = new],
             adds |-> matchers.adds + 1,
             kept |-> matchers.kept,
             last |-> [op |-> "add", i |-> i, category |-> category,
                       phrases |-> phrases, before |-> m.compiled,
                       keywords_before |->
                           DictGet(KeywordsOf(m, matchers.KEYWORDS), category),
                       kept_before |-> matchers.kept]]
    /\ FrameInst

\* instance i: match(text), whose MatchResult the caller keeps; `kept` is
\* the MatchResult object of the latest call
MatchOn(i, text) ==
    /\ i \in DOMAIN matchers.inst
    /\ LET r == [called |-> TRUE, i |-> i, text |-> text,
                 hits |-> HitsOf(matchers.inst[i].compiled, <<>>, text)]
       IN matchers' = [matchers EXCEPT !.kept = r, !.last = [op |-> "match"]]
    /\ FrameInst

NextInst ==
    \/ \E kw \in {<<>>, CustomKeywords} : Construct(kw)
    \/ \E i \in 1..MaxInstances, c \in CustomCategories, p \in CustomPhrases :
          AddCustomKeywords(i, c, <<p>>)
    \/ \E i \in 1..MaxInstances, t \in InstTexts : MatchOn(i, t)

InitInst ==
    /\ matchers = [KEYWORDS |-> keywords, inst |-> <<>>, adds |-> 0,
                   kept |-> [called |-> FALSE], last |-> [op |-> "init"]]
    /\ qresult = [called |-> FALSE]
    /\ interaction = [called |-> FALSE]
    /\ dbcall = [called |-> FALSE]
    /\ invocation = [called |-> FALSE]
    /\ InitStore /\ IdleMatch /\ IdleEng
    /\ IdleMon /\ IdleLambda /\ IdleOrd /\ IdleEnrich /\ IdleSrc

SpecInst == InitInst /\ [][NextInst]_vars

(***************************************************************************)
(* quick_match beside match, on one instance and one (title, body).        *)
(***************************************************************************)
\* a taxonomy whose one phrase has two words, neither a phrase of its own, as
\* "motivated seller" in KEYWORDS
PhraseKeywords ==
    << [category |-> "deal_types", phrases |-> << <<"a", " ", "b">> >>] >>

\* f"{title} {text}".lower()
CombinedText(title, text) == LowerText(title \o <<" ">> \o text)

\* quick_match(text, title): pattern.search(combined_text) for some pattern
quick_match(compiled, text, title) ==
    LET pats == CompiledFrom(compiled)
    IN  \E k \in DOMAIN pats :
            findall(pats[k].phrase, CombinedText(title, text)) > 0

\* one instance asked quick_match(text, title) and match(text, title)
QuickMatch(kw, title, text) ==
    /\ ~qresult.called
    /\ LET m == NewMatcher(kw, keywords)
       IN qresult' = [called |-> TRUE, title |-> title, text |-> text,
                      quick |-> quick_match(m.compiled, text, title),
                      matched |-> HitsOf(m.compiled, title, text) # {}]
    /\ UNCHANGED <<storeVars, matchVars, engVars, monVars, lambdaVars, ordVars,
                   enrichVars, srcVars, reviewVars, dbVars, instVars,
                   scopeVars>>

NextQuick ==
    \E kw \in {<<>>, PhraseKeywords}, title \in Texts, text \in Texts :
        QuickMatch(kw, title, text)

SpecQuick == Init /\ [][NextQuick]_vars

(***************************************************************************)
(* mark_responded beside the Slack buttons. Each statement runs under its  *)
(* own get_cursor, which commits when the statement returns: the UPDATE of *)
(* update_status is committed before the INSERT starts.                    *)
(***************************************************************************)
\* mark_responded, second statement raises: get_cursor rolls the INSERT back
\* and the exception leaves mark_responded
MarkRespondedRaises ==
    /\ responder.pc = "insert"
    /\ responder' = [pc |-> "idle", id |-> 0]
    /\ UNCHANGED <<opportunities, responses, now, scan, handler, slack_posts,
                   create_log>>

NextRespond ==
    \/ \E r \in RedditIds : Stored(r)
    \/ \E a \in ActionIds, r \in RedditIds, u \in UserNames : Interact(a, r, u)
    \/ \E id \in 1..Cardinality(RedditIds) : MarkRespondedUpdate(id) /\ Frame
    \/ MarkRespondedInsert /\ Frame
    \/ MarkRespondedRaises /\ Frame

SpecRespond == Init /\ [][NextRespond]_vars

(***************************************************************************)
(* scan_and_notify over several scopes, one of which may have failed while *)
(* its posts were fetched: scan_subreddit catches the exception, and the   *)
(* ScanResult carries the opportunities found before it and the error.     *)
(***************************************************************************)
\* scan_and_notify(event) is invoked and the monitor yields `results`
ScopeStart(results) ==
    /\ scan[1].pc = "idle"
    /\ scan' = [scan EXCEPT ![1] =
                  ScanLoop([IdleFrame EXCEPT !.scan_results = results])]
    /\ invocation' = [called |-> TRUE, results |-> results,
                      rows |-> opportunities, posts |-> slack_posts]
    /\ UNCHANGED <<opportunities, responses, now, handler, responder,
                   slack_posts, create_log, lambdaVars>>
    /\ UNCHANGED <<matchVars, engVars, monVars, ordVars, enrichVars, srcVars,
                   reviewVars, dbVars, instVars, quickVars>>

ScopeReturn == Return(1) /\ UNCHANGED lambdaVars /\ FrameLambda

NextScope ==
    \/ \E r1, r2 \in ScanResults : ScopeStart(<<r1, r2>>)
    \/ LambdaScanStep
    \/ ScopeReturn

SpecScope == Init /\ [][NextScope]_vars

(***************************************************************************)
(* Claims about the store, the scan driver and the reviewers.              *)
(***************************************************************************)
CreateCalls(r) == {c \in create_log : c.reddit_id = r}

\* C1: when concurrent scan invocations process a post with the same
\* reddit_id, each doing exists() then create(), the store holds exactly one
\* row for that reddit_id and exactly one of the create calls returned an id;
\* every other create call returned None.
C1_ConcurrentCreateOneRow ==
    \A r \in RedditIds :
        /\ Cardinality(RowsWith(opportunities, r)) <= 1
        /\ CreateCalls(r) # {} =>
              /\ Cardinality(RowsWith(opportunities, r)) = 1
              /\ Cardinality({c \in CreateCalls(r) : c.returned # 0}) = 1
              /\ \A c \in CreateCalls(r) :
                    c.returned # 0 => opportunities[c.returned].reddit_id = r

\* both invocations found exists() false for the same post and called create
C1_Witness ==
    \E r \in RedditIds : {c.proc : c \in CreateCalls(r)} = Procs

\* C2: over any sequence of scan invocations, post_opportunity is called at
\* most once for each reddit_id: a post already in the store yields no new
\* notification when a later scan fetches it again.
C2_PostedAtMostOnce ==
    \A r \in RedditIds : slack_posts[r] <= 1

\* a scan fetched posts that were all stored and notified already: nothing new
C2_Witness ==
    \E p \in Procs :
        /\ scan[p].pc = "done"
        /\ scan[p].errors = 0
        /\ scan[p].posts_scanned = Cardinality(RedditIds)
        /\ scan[p].opportunities_found = 0
        /\ \A r \in RedditIds : slack_posts[r] = 1

\* C3: create is idempotent on reddit_id: a create for a reddit_id that is
\* already stored leaves the table as it was, with one row for that reddit_id,
\* and returns None.
C3_CreateIdempotent ==
    [][\A p \in Procs :
          (/\ scan[p].pc = "create"
           /\ scan'[p] # scan[p]
           /\ \E i \in DOMAIN opportunities :
                 opportunities[i].reddit_id = Head(scan[p].pending).reddit_id)
          => /\ opportunities' = opportunities
             /\ Cardinality({i \in DOMAIN opportunities' :
                   opportunities'[i].reddit_id = Head(scan[p].pending).reddit_id}) = 1
             /\ [proc |-> p, reddit_id |-> Head(scan[p].pending).reddit_id,
                 returned |-> 0] \in create_log'
             /\ scan'[p].opportunities_found = scan[p].opportunities_found
      ]_vars

\* a create call hit a stored reddit_id, after time had passed since it was stored
C3_Witness ==
    \E c \in create_log :
        /\ c.returned = 0
        /\ \E i \in DOMAIN opportunities :
              /\ opportunities[i].reddit_id = c.reddit_id
              /\ opportunities[i].created_at < now

\* C4: once the status of an opportunity is expired, responded or dismissed,
\* no store operation or Slack callback changes it.
C4_TerminalStatusKept ==
    [][\A i \in DOMAIN opportunities :
          opportunities[i].status \in {"expired", "responded", "dismissed"}
          => opportunities'[i].status = opportunities[i].status]_vars

\* C5: the expiry sweep changes to expired exactly the rows that are pending
\* and were created more than the threshold ago, leaves every other row as it
\* is, and returns the number of rows it changed.
C5_SweepExact ==
    [][\A p \in Procs :
          (scan[p].pc = "expire" /\ scan'[p].pc = "done")
          => /\ DOMAIN opportunities' = DOMAIN opportunities
             /\ \A i \in DOMAIN opportunities :
                   IF /\ opportunities[i].status = "pending"
                      /\ now - opportunities[i].created_at > ExpiryHours
                   THEN opportunities'[i] =
                            [opportunities[i] EXCEPT !.status = "expired"]
                   ELSE opportunities'[i] = opportunities[i]
             /\ scan'[p].opportunities_expired =
                   Cardinality({i \in DOMAIN opportunities :
                       opportunities'[i].status # opportunities[i].status})
      ]_vars

\* a sweep expired a row and left alone an equally old approved row and a
\* pending row exactly at the threshold, while a Slack callback was in progress
C5_Witness ==
    \E p \in Procs :
        /\ scan[p].pc = "done"
        /\ scan[p].opportunities_expired = 1
        /\ handler.pc = "update"
        /\ \E i, j \in DOMAIN opportunities :
              /\ opportunities[i].status = "expired"
              /\ opportunities[j].status \in {"approved", "rejected", "responded"}
              /\ now - opportunities[j].created_at > ExpiryHours

(***************************************************************************)
(* Claims about the keyword matcher.                                       *)
(***************************************************************************)
Hits(result) == {result.keywords[i] : i \in DOMAIN result.keywords}

\* C6: for every title and body, match returns matched = TRUE exactly when
\* the keyword-hit list it returns is non-empty, which is exactly when some
\* phrase occurs in the title or the body, and every listed hit has a nonzero
\* title or body count.
C6_MatchedIffHits ==
    mresult.called =>
        /\ mresult.matched <=> (mresult.keywords # <<>>)
        /\ mresult.matched <=>
              \E k \in DOMAIN compiled_patterns :
                  \/ findall(compiled_patterns[k].phrase, LowerText(mtitle)) > 0
                  \/ findall(compiled_patterns[k].phrase, LowerText(mtext)) > 0
        /\ \A h \in Hits(mresult) : h.title_matches > 0 \/ h.body_matches > 0

\* match found one phrase only in the title and another only in the body
C6_Witness ==
    /\ mresult.called /\ mresult.matched
    /\ \E h \in Hits(mresult) : h.title_matches = 0 /\ h.body_matches > 0
    /\ \E h \in Hits(mresult) : h.title_matches > 0 /\ h.body_matches = 0

\* the phrases with a hit, the sum of their weighted scores (hundredths) and the
\* categories they belong to, from the counts alone
HitPhrases(counts) ==
    {k \in DOMAIN counts : counts[k].title_matches > 0 \/ counts[k].body_matches > 0}

Weighted(counts, k) ==
    LET w == 150 * counts[k].title_matches + 100 * counts[k].body_matches
    IN IF compiled_patterns[k].category = "miami_specific" THEN (13 * w) \div 10 ELSE w

RECURSIVE TotalOf(_, _)
TotalOf(counts, K) ==
    IF K = {} THEN 0
    ELSE LET k == CHOOSE x \in K : TRUE
         IN Weighted(counts, k) + TotalOf(counts, K \ {k})

\* min(min(total/10, 1) + min(0.1 * distinct_matched_categories, 0.3), 1), in
\* thousandths
ScoreFormula(counts) ==
    LET total == TotalOf(counts, HitPhrases(counts))
        cats  == {compiled_patterns[k].category : k \in HitPhrases(counts)}
        norm  == IF total > 1000 THEN 1000 ELSE total
        bonus == IF Cardinality(cats) > 3 THEN 300 ELSE 100 * Cardinality(cats)
    IN IF norm + bonus > 1000 THEN 1000 ELSE norm + bonus

\* C7 as claimed: the score match returns equals the formula exactly.
C7_ScoreEqualsFormula ==
    mresult.called => mresult.score * 10 = ScoreFormula(mcounts)

\* C7 as amended: the score is the formula rounded to two decimals (to either
\* neighbour when it lies exactly halfway), is within [0, 1], and is 0 when no
\* phrase hits.
C7_ScoreIsRoundedFormula ==
    mresult.called =>
        /\ mresult.score * 10 - ScoreFormula(mcounts) \in -5..5
        /\ mresult.score >= 0 /\ mresult.score <= 100
        /\ HitPhrases(mcounts) = {} => mresult.score = 0

\* hits in all four categories, the bonus category among them, with a total
\* that saturates: both caps apply
C7_Witness ==
    /\ mresult.called
    /\ Cardinality(mresult.categories) = 4
    /\ TotalOf(mcounts, HitPhrases(mcounts)) > 1000
    /\ mresult.score = 100

(***************************************************************************)
(* Claims about the engagement scorer.                                     *)
(***************************************************************************)
\* min(relevance_score*0.6 + volume_bonus + freshness_bonus, 1.0), in thousandths
CompositeFormula(post, kw_score) ==
    LET fresh  == IF post.post_age_hours < 60 THEN 200
                  ELSE IF post.post_age_hours < 120 THEN 100 ELSE 0
        volume == (IF post.upvotes \in 5..100 THEN 150 ELSE 0)
                  + (IF post.comment_count \in 3..50 THEN 150 ELSE 0)
        sum    == 6 * kw_score + volume + fresh
    IN IF sum > 1000 THEN 1000 ELSE sum

ScenarioC ==
    [upvotes |-> 15, comment_count |-> 8, post_age_hours |-> 35, called |-> TRUE]

\* C8 as claimed: the composite returned equals the formula exactly.
C8_CompositeEqualsFormula ==
    eresult.called => eresult.score * 10 = CompositeFormula(epost, ekeyword)

\* C8 as amended: the composite returned is the formula rounded to two
\* decimals; upvotes=15, comments=8, age=3.5, relevance 0.5 gives 0.80, high.
C8_CompositeIsRoundedFormula ==
    eresult.called =>
        /\ eresult.score * 10 - CompositeFormula(epost, ekeyword) \in -4..4
        /\ (epost = ScenarioC /\ ekeyword = 50) =>
              (eresult.score = 80 /\ eresult.level = "high")

\* the scorer rounded a composite that has a third decimal, on a post that is
\* 6 hours old with upvotes and comments at the edges of their ranges
C8_Witness ==
    /\ eresult.called
    /\ epost.post_age_hours = 60 /\ epost.upvotes = 100 /\ epost.comment_count = 3
    /\ CompositeFormula(epost, ekeyword) % 10 # 0
    /\ eresult.score * 10 > CompositeFormula(epost, ekeyword)

\* C9: the tier returned agrees with the composite returned: high iff the
\* composite >= 0.7, medium iff 0.4 <= composite < 0.7, low iff composite < 0.4.
C9_TierAgreesWithComposite ==
    eresult.called =>
        /\ eresult.level = "high" <=> eresult.score >= 70
        /\ eresult.level = "medium" <=> (eresult.score >= 40 /\ eresult.score < 70)
        /\ eresult.level = "low" <=> eresult.score < 40

\* C10: with upvotes, comment_count and age_hours fixed, the composite does not
\* decrease when relevance_score grows, and it never exceeds 1.0.
C10_CompositeMonotone ==
    eresult.called =>
        /\ eresult.score <= 100
        /\ \A k \in KeywordScores :
              \A r \in calculate_engagement_score(epost, k) :
                  /\ k <= ekeyword => r.score <= eresult.score
                  /\ k >= ekeyword => r.score >= eresult.score

\* the cap applies to a relevance score below 1.0 and a lower one scores less
C10_Witness ==
    /\ eresult.called
    /\ eresult.score = 100
    /\ ekeyword < 100
    /\ \E k \in KeywordScores :
          /\ k < ekeyword
          /\ \E r \in calculate_engagement_score(epost, k) : r.score < 100

(***************************************************************************)
(* Claims about the subreddit monitor.                                     *)
(***************************************************************************)
Indexes(seq) == {seq[i] : i \in DOMAIN seq}

\* some phrase of the taxonomy occurs in the title or the body of the post
SomePhraseOccurs(post) ==
    \E k \in DOMAIN compiled_patterns :
        \/ findall(compiled_patterns[k].phrase, LowerText(post.title)) > 0
        \/ findall(compiled_patterns[k].phrase, LowerText(post.body)) > 0

Filtered(post) ==
    \/ post.post_age_hours > post_max_age_hours
    \/ post.locked
    \/ post.archived
    \/ post.nsfw

\* C11: no opportunity in a ScanResult comes from a post that is older than
\* max_age_hours, locked, archived or NSFW, or that the keyword matcher did not
\* match; such posts are dropped before any scoring (a filtered post reaches
\* neither the matcher nor the scorer, an unmatched one does not reach the
\* scorer) and are still counted in posts_scanned.
C11_FilteredPostsDropped ==
    monitor.result.called =>
        /\ \A o \in Indexes(monitor.result.opportunities) :
              /\ ~Filtered(stream.posts[o.reddit_id])
              /\ SomePhraseOccurs(stream.posts[o.reddit_id])
        /\ \A i \in DOMAIN stream.posts :
              /\ Filtered(stream.posts[i]) =>
                    /\ i \notin Indexes(monitor.acc.match_calls)
                    /\ i \notin Indexes(monitor.acc.score_calls)
              /\ ~SomePhraseOccurs(stream.posts[i]) =>
                    i \notin Indexes(monitor.acc.score_calls)
        /\ monitor.result.posts_scanned = Len(stream.posts)

\* a scan dropped a post one tenth of an hour over the age limit and kept a
\* post exactly at the limit
C11_Witness ==
    /\ monitor.result.called
    /\ monitor.result.posts_scanned = 2
    /\ monitor.result.opportunities_found = 1
    /\ \E i, j \in DOMAIN stream.posts :
          /\ stream.posts[i].post_age_hours = post_max_age_hours + 1
          /\ ~stream.posts[i].locked /\ ~stream.posts[i].nsfw
          /\ monitor.result.opportunities[1].reddit_id = j
          /\ stream.posts[j].post_age_hours = post_max_age_hours

\* the composites the scorer can give post
Composites(post) ==
    UNION {{e.score : e \in calculate_engagement_score(post, m.score)} :
              m \in match(post.body, post.title)}

\* C12: for every caller-supplied min_score (including 0), scan_subreddit keeps
\* exactly the unfiltered, matched posts whose composite score is >= that
\* min_score: a matched post is dropped only if its composite is below the
\* min_score the caller passed.
C12_SuppliedMinScoreApplied ==
    (monitor.result.called /\ min_score # -1) =>
        /\ \A o \in Indexes(monitor.result.opportunities) :
              o.relevance_score >= min_score
        /\ \A i \in DOMAIN stream.posts :
              (/\ ~Filtered(stream.posts[i])
               /\ SomePhraseOccurs(stream.posts[i])
               /\ \A o \in Indexes(monitor.result.opportunities) : o.reddit_id # i)
              => \E c \in Composites(stream.posts[i]) : c < min_score

\* C13: a fetch error raised by the Post Source in one scope is captured in
\* that scope's ScanResult error field (with the posts scanned before it) and
\* does not end scan_all_subreddits: the next scope can still be scanned, and
\* each scope yields its own ScanResult.
C13_FetchErrorCaptured ==
    monitor.result.called =>
        /\ monitor.result.errors = stream.error
        /\ monitor.result.subreddit = Scopes[monitor.next - 1]
        /\ monitor.result.posts_scanned = Len(stream.posts)
        /\ monitor.next <= Len(Scopes) => ENABLED EndOfStream(None)

\* the scope after one whose fetch failed was scanned and yielded opportunities
C13_Witness ==
    /\ monitor.result.called
    /\ monitor.errors_seen = 1
    /\ monitor.next = 3
    /\ monitor.result.errors = None
    /\ monitor.result.opportunities_found = 2

(***************************************************************************)
(* Claims about the trigger entry point and the notifications.             *)
(***************************************************************************)
\* C14: the trigger entry point always returns a structured summary, and when
\* a failure occurs partway through a run, after some scopes were processed,
\* the summary returned still reports the progress made up to that point
\* (scopes scanned, posts scanned, opportunities found).
C14_PartialProgressReported ==
    [][(~response.called /\ response'.called)
       => /\ response'.statusCode \in {200, 500}
          /\ scan[1].subreddits_scanned > 0
             => /\ "results" \in DOMAIN response'
                /\ response'.results.subreddits_scanned = scan[1].subreddits_scanned
                /\ response'.results.posts_scanned = scan[1].posts_scanned
                /\ response'.results.opportunities_found
                       = scan[1].opportunities_found
      ]_vars

\* C15: when sending the notification for an opportunity fails, the run goes
\* on with the remaining opportunities and the expiry sweep, the opportunity
\* stays stored with no notification_ref, and notifications_sent is not
\* incremented.
C15_SendFailureRecovered ==
    [][(/\ scan[1].pc = "post"
        /\ slack_posts' # slack_posts
        /\ scan'[1].pc # "update_ts")
       => /\ scan'[1].pc \in {"post", "expire"}
          /\ scan'[1].k = scan[1].k + 1
          /\ scan'[1].notifications_sent = scan[1].notifications_sent
          /\ opportunities' = opportunities
          /\ opportunities[ToPost(scan[1])[scan[1].k].id].slack_message_ts = 0
      ]_vars

\* the opportunity of reddit_id r has reached the notification channel
Delivered(r) ==
    \/ \E i \in DOMAIN opportunities :
          opportunities[i].reddit_id = r /\ opportunities[i].slack_message_ts # 0
    \/ /\ scan[1].pc = "update_ts"
       /\ ToPost(scan[1])[scan[1].k].reddit_id = r

\* C16: every opportunity newly persisted by a scan is eventually posted to
\* the notification channel at least once, over any sequence of scan
\* invocations in which the notifier eventually works.
C16_AtLeastOnceDelivery ==
    \A r \in RedditIds : exists(opportunities, r) ~> Delivered(r)

(***************************************************************************)
(* Claims about the matcher and the text it is given.                      *)
(***************************************************************************)
\* the scores match can return
ScoresOf(text, title) == {r.score : r \in match(text, title)}

\* the texts that differ from t only in the case of letters
CaseVariants(t) ==
    {v \in [DOMAIN t -> Chars \cup {"B"}] :
        \A i \in DOMAIN t : Lower(v[i]) = Lower(t[i])}

\* the places of t where one space separates two words
BetweenWords(t) ==
    {i \in DOMAIN t : /\ t[i] = " "
                      /\ i > 1 /\ t[i - 1] # " "
                      /\ i < Len(t) /\ t[i + 1] # " "}

\* t with one more space after place i
ExtraSpaceAt(t, i) == SubSeq(t, 1, i) \o <<" ">> \o SubSeq(t, i + 1, Len(t))

\* the characters of phrase stand at text[pos], whatever surrounds them
OccursAt(phrase, text, pos) ==
    /\ pos + Len(phrase) - 1 <= Len(text)
    /\ \A j \in 1..Len(phrase) : Lower(text[pos + j - 1]) = Lower(phrase[j])

\* every occurrence of phrase in text has a letter right before or right after it
OnlyInsideWords(phrase, text) ==
    \A pos \in 1..Len(text) :
        OccursAt(phrase, text, pos) =>
            \/ pos > 1 /\ text[pos - 1] # " "
            \/ pos + Len(phrase) <= Len(text) /\ text[pos + Len(phrase)] # " "

\* match's score does not depend on the case of letters
CaseInvariant ==
    mresult.called =>
        \A t \in CaseVariants(mtitle), b \in CaseVariants(mtext) :
            ScoresOf(b, t) = ScoresOf(mtext, mtitle)

\* a phrase that occurs only inside longer words is not among the hits
WholeWordsOnly ==
    mresult.called =>
        \A k \in DOMAIN compiled_patterns :
            (/\ OnlyInsideWords(compiled_patterns[k].phrase, mtitle)
             /\ OnlyInsideWords(compiled_patterns[k].phrase, mtext))
            => \A h \in Hits(mresult) : h.phrase # compiled_patterns[k].phrase

\* match's score does not depend on extra whitespace between words
WhitespaceInvariant ==
    mresult.called =>
        /\ \A i \in BetweenWords(mtitle) :
              ScoresOf(mtext, ExtraSpaceAt(mtitle, i)) = ScoresOf(mtext, mtitle)
        /\ \A i \in BetweenWords(mtext) :
              ScoresOf(ExtraSpaceAt(mtext, i), mtitle) = ScoresOf(mtext, mtitle)

\* C17: match's score is unchanged when the case of letters in title or body
\* is changed or when extra whitespace is inserted between words, and a phrase
\* that occurs only as part of a longer word contributes no hit.
C17_CaseWhitespaceWordBoundary ==
    /\ CaseInvariant
    /\ WhitespaceInvariant
    /\ WholeWordsOnly

\* C18: for a fixed taxonomy content and fixed title and body, match returns
\* the same matched flag, score and category set for every permutation of the
\* category declaration order and of the phrase order within a category, and
\* repeated calls return the same result.
C18_OrderIndependent ==
    mresult2.called =>
        /\ mresult2.matched = mresult.matched
        /\ mresult2.score = mresult.score
        /\ mresult2.categories = mresult.categories

(***************************************************************************)
(* Claims about the AI enricher.                                           *)
(***************************************************************************)
\* the fallback carries the record's own score and potential
OwnScoreAndPotential ==
    /\ apost.post.relevance_score # -1 =>
          aresult.analysis.relevance_score = apost.post.relevance_score
    /\ apost.post.engagement_potential # None =>
          aresult.analysis.engagement_potential
              = apost.post.engagement_potential

\* the fallback has no angle, no draft and no advice to engage
NoAdvice ==
    /\ aresult.analysis.suggested_angle = ""
    /\ aresult.analysis.draft_response = ""
    /\ ~aresult.analysis.should_engage
    /\ aresult.analysis.user_intent = "unknown"

\* C19: analyze_post never raises for an opportunity record, and when the
\* enrichment fails its result carries the record's own relevance_score and
\* engagement potential and is otherwise empty: no angle, no draft, no red
\* flag, no reasoning
C19_FallbackOtherwiseEmpty ==
    aresult.called =>
        /\ ~aresult.raised
        /\ aresult.failed =>
              /\ OwnScoreAndPotential
              /\ NoAdvice
              /\ aresult.analysis.red_flags = <<>>
              /\ aresult.analysis.reasoning = <<>>

\* C19 as amended: analyze_post never raises for an opportunity record, and
\* when the enrichment fails its result carries the record's own
\* relevance_score and engagement potential, no angle, no draft and no
\* advice to engage, and reports the failure: the red flag
\* "Analysis failed" and a reasoning that quotes the error
C19_FallbackCarriesOwnScore ==
    aresult.called =>
        /\ ~aresult.raised
        /\ aresult.failed =>
              /\ OwnScoreAndPotential
              /\ NoAdvice
              /\ aresult.analysis.red_flags = <<"Analysis failed">>
              /\ Len(aresult.analysis.reasoning) = 2
              /\ aresult.analysis.reasoning[1] = "Analysis error: "

\* the answer of Bedrock could not be parsed for a record scored 0.8, high
C19_Witness ==
    /\ aresult.called
    /\ aresult.failed
    /\ ~aresult.raised
    /\ apost.post.relevance_score = 80
    /\ apost.post.engagement_potential = "high"
    /\ aresult.analysis.reasoning[2] = "JSONDecodeError"

(***************************************************************************)
(* Claims about the Post Sources.                                          *)
(***************************************************************************)
WellFormed == {i \in 1..Len(batch.records) : batch.records[i] = "ok"}

\* C20: every Post Source skips a malformed record and delivers the
\* remaining records of the batch; the batch is not aborted and the scope
\* gets no error
C20_MalformedRecordSkipped ==
    sresult.called =>
        /\ sresult.error = None
        /\ sresult.delivered = Positions(batch.records, WellFormed)

(***************************************************************************)
(* Claims about the Slack interactions.                                    *)
(***************************************************************************)
\* the status each user action stands for
ActionOf ==
    [approve_opportunity |-> "approved", reject_opportunity |-> "rejected",
     mark_reviewed |-> "reviewed", dismiss_opportunity |-> "dismissed"]

\* the row the interaction names, in the table before it (0: none)
Named == get_by_reddit_id(interaction.before, interaction.reddit_id)

\* only the named row differs from the table before, and only in its
\* status and reviewer
OnlyNamedRowChanged ==
    /\ Len(opportunities) = Len(interaction.before)
    /\ \A i \in DOMAIN opportunities :
          IF i = Named
          THEN opportunities[i] =
                  [interaction.before[i] EXCEPT
                      !.status = opportunities[i].status,
                      !.reviewed_by = opportunities[i].reviewed_by]
          ELSE opportunities[i] = interaction.before[i]

\* what the code does: approve and reject on an existing opportunity set its
\* status and its reviewer; every other action_id, and an action naming no
\* stored opportunity, leave the store unchanged
ApproveRejectUpdateStatus ==
    interaction.called =>
        IF interaction.action_id \in {"approve_opportunity",
                                       "reject_opportunity"} /\ Named # 0
        THEN /\ opportunities[Named].status = ActionOf[interaction.action_id]
             /\ opportunities[Named].reviewed_by = interaction.user
             /\ OnlyNamedRowChanged
        ELSE opportunities = interaction.before

\* C21: approve, reject, reviewed and dismiss on an existing opportunity set
\* its status to the corresponding value and record the acting user as
\* reviewer; an action naming no stored opportunity, and an unknown action,
\* leave the store unchanged
C21_ActionUpdatesStatus ==
    interaction.called =>
        IF interaction.action_id \in DOMAIN ActionOf /\ Named # 0
        THEN /\ opportunities[Named].status = ActionOf[interaction.action_id]
             /\ opportunities[Named].reviewed_by = interaction.user
             /\ OnlyNamedRowChanged
        ELSE opportunities = interaction.before

(***************************************************************************)
(* Claims about the order of a ScanResult.                                 *)
(***************************************************************************)
\* C22: the opportunities of a ScanResult are in non-increasing
\* relevance_score order, two with equal relevance_score are in the order
\* in which the source delivered them, and they are the candidates the loop
\* collected
C22_SortedDescendingStable ==
    monitor.result.called =>
        LET opps == monitor.result.opportunities
        IN  /\ \A i, j \in DOMAIN opps :
                  i < j =>
                     \/ opps[i].relevance_score > opps[j].relevance_score
                     \/ /\ opps[i].relevance_score = opps[j].relevance_score
                        /\ opps[i].reddit_id < opps[j].reddit_id
            /\ Len(opps) = Len(monitor.acc.opportunities)
            /\ {opps[i] : i \in DOMAIN opps}
                 = {monitor.acc.opportunities[i] :
                        i \in DOMAIN monitor.acc.opportunities}

\* the second post of the stream scored higher than the first and comes first
C22_Witness ==
    /\ monitor.result.called
    /\ Len(monitor.result.opportunities) = 2
    /\ monitor.result.opportunities[1].reddit_id = 2
    /\ monitor.result.opportunities[2].reddit_id = 1

\* two posts of one stream tie and keep the order of the stream
C22_TieWitness ==
    /\ monitor.result.called
    /\ Len(monitor.result.opportunities) = 2
    /\ monitor.result.opportunities[1].relevance_score
         = monitor.result.opportunities[2].relevance_score
    /\ monitor.result.opportunities[1].reddit_id = 1

(***************************************************************************)
(* Claims about the cap on notifications.                                  *)
(***************************************************************************)
\* the calls of post_opportunity this invocation has made so far
Attempts(f) == IF f.pc = "update_ts" THEN f.k ELSE f.k - 1

\* the new opportunities of the invocation, sorted once its scan loop is left
Sorted(f) == f.pc \in {"post", "update_ts", "expire", "done"}

\* opp was created by a create call of this invocation that returned its id
NewlyCreated(opp) ==
    /\ opp.id # 0
    /\ \E c \in create_log :
          c.proc = 1 /\ c.reddit_id = opp.reddit_id /\ c.returned = opp.id

Least(a, b) == IF a < b THEN a ELSE b

\* C23: an invocation attempts at most max_slack_posts notifications, only
\* for opportunities it created, the ones chosen score at least as high as
\* every new opportunity left out, and notifications_sent is at most
\* min(max_slack_posts, opportunities_found)
C23_NotificationsCapped ==
    LET f == scan[1]
    IN  f.pc # "idle" =>
          /\ Attempts(f) <= f.max_slack_posts
          /\ Attempts(f) <= Len(f.all_opportunities)
          /\ \A i \in 1..Attempts(f) : NewlyCreated(f.all_opportunities[i])
          /\ Sorted(f) =>
                \A i, j \in DOMAIN f.all_opportunities :
                    (i <= Least(f.max_slack_posts, Len(f.all_opportunities))
                       /\ j > f.max_slack_posts) =>
                        f.all_opportunities[i].relevance_score
                          >= f.all_opportunities[j].relevance_score
          /\ f.notifications_sent
               <= Least(f.max_slack_posts, f.opportunities_found)

\* two opportunities were created, r2 after r1, and the cap of one let the
\* invocation notify r2 alone
C23_Witness ==
    /\ scan[1].pc = "done"
    /\ scan[1].max_slack_posts = 1
    /\ scan[1].opportunities_found = 2
    /\ scan[1].notifications_sent = 1
    /\ slack_posts["r2"] = 1
    /\ slack_posts["r1"] = 0
    /\ get_by_reddit_id(opportunities, "r1") = 1

(***************************************************************************)
(* Claims about the retries of the store.                                  *)
(***************************************************************************)
\* the call is over
DbDone == dbcall.called /\ dbcall.pc \in {"returned", "raised"}

\* C24: every store operation is attempted at most 3 times, is retried when
\* an attempt fails on a transient error, and hands the failure to its
\* caller when all 3 attempts failed
C24_BoundedRetry ==
    dbcall.called =>
        /\ dbcall.attempts <= StopAfterAttempt
        /\ (dbcall.pc = "raised" /\ dbcall.error = "OperationalError") =>
              dbcall.attempts = StopAfterAttempt
        /\ (dbcall.pc = "returned") => dbcall.attempts = dbcall.failures + 1
        /\ (dbcall.pc = "trying") => dbcall.attempts < StopAfterAttempt

\* the phrase stands in the text as whole words: it is there, in any case of
\* the letters, and no word character touches it on either side
ContainsPhrase(text, phrase) ==
    \E pos \in 1..Len(text) :
        /\ pos + Len(phrase) - 1 <= Len(text)
        /\ \A j \in 1..Len(phrase) : Lower(text[pos + j - 1]) = Lower(phrase[j])
        /\ pos > 1 => ~IsWordChar(text[pos - 1])
        /\ pos + Len(phrase) <= Len(text) => ~IsWordChar(text[pos + Len(phrase)])

AddedTo == matchers.inst[matchers.last.i]

\* add_custom_keywords appends the phrases to the category, rebuilds the
\* patterns of that category from its list, leaves the patterns of the other
\* categories and the MatchResult returned before as they were
RebuildsThatCategoryOnly ==
    matchers.last.op = "add" =>
        LET l  == matchers.last
            kw == KeywordsOf(AddedTo, matchers.KEYWORDS)
        IN  /\ DictGet(kw, l.category) = l.keywords_before \o l.phrases
            /\ DictGet(AddedTo.compiled, l.category) = DictGet(kw, l.category)
            /\ \A c \in {"miami_specific", "wholesaling", "deal_types",
                         "florida_markets", "custom"} \ {l.category} :
                  /\ DictHas(AddedTo.compiled, c) = DictHas(l.before, c)
                  /\ DictGet(AddedTo.compiled, c) = DictGet(l.before, c)
            /\ matchers.kept = l.kept_before

\* an added phrase that begins and ends with a word character, as every
\* phrase of KEYWORDS does, matches where it stands as whole words
AddedWordPhraseMatches ==
    matchers.last.op = "add" =>
        \A k \in DOMAIN matchers.last.phrases, t \in InstTexts :
            LET phrase == matchers.last.phrases[k]
            IN  /\ IsWordChar(phrase[1]) /\ IsWordChar(phrase[Len(phrase)])
                /\ ContainsPhrase(t, phrase)
                => matchers.last.category \in
                       CategoriesHit(AddedTo.compiled, <<>>, t)

\* C25: add_custom_keywords(category, phrases) appends the phrases to that
\* category and rebuilds the patterns of that category only, the other
\* categories' patterns and the MatchResults returned before are unchanged,
\* and after the call a text containing an added phrase matches under that
\* category.
C25_AddedPhraseMatches ==
    /\ RebuildsThatCategoryOnly
    /\ matchers.last.op = "add" =>
          \A k \in DOMAIN matchers.last.phrases, t \in InstTexts :
              ContainsPhrase(t, matchers.last.phrases[k]) =>
                  matchers.last.category \in
                      CategoriesHit(AddedTo.compiled, <<>>, t)

\* the taxonomy of an instance on its own: the one it was built with and the
\* phrases added through it, in the order they were added
RECURSIVE OwnTaxonomy(_, _)
OwnTaxonomy(kw, added) ==
    IF added = <<>> THEN kw
    ELSE OwnTaxonomy(Extended(kw, Head(added).category, Head(added).phrases),
                     Tail(added))

\* C27: adding custom keywords through one KeywordMatcher instance never
\* changes what another instance matches, whether it exists already or is
\* created afterwards with the default taxonomy: every instance matches what
\* its own taxonomy and the phrases added through it make it match.
C27_InstancesIndependent ==
    \A i \in DOMAIN matchers.inst, t \in InstTexts :
        HitsOf(matchers.inst[i].compiled, <<>>, t) =
            HitsOf(OwnTaxonomy(matchers.inst[i].initial,
                               matchers.inst[i].added), <<>>, t)

\* C26: for every title and body, quick_match(body, title) is true exactly
\* when match(body, title).matched is, a phrase split between the end of the
\* title and the start of the body included.
C26_QuickMatchAgrees ==
    qresult.called => (qresult.quick <=> qresult.matched)

\* whatever match finds, quick_match finds
MatchedImpliesQuick ==
    qresult.called /\ qresult.matched => qresult.quick

\* a response record was added for the opportunity, and nothing else changed
ResponseAdded ==
    responder.pc = "insert" /\ responder'.pc = "idle"
    /\ responses' # responses
    => /\ responses' = responses \cup {responder.id}
       /\ opportunities' = opportunities

\* C28: mark_responded changes only the opportunity's status, to responded,
\* and adds the response record: reviewed_by, recorded by an earlier approve,
\* is the same after mark_responded as before it.
C28_MarkRespondedKeepsReviewer ==
    [][/\ responder.pc = "idle" /\ responder'.pc = "insert"
          => /\ opportunities' =
                   [opportunities EXCEPT ![responder'.id].status = "responded"]
             /\ responses' = responses
       /\ ResponseAdded]_vars

\* C29: in every store state with no mark_responded call in progress, a
\* failure between its two statements included, an opportunity whose status
\* is responded has a response record.
C29_RespondedHasResponse ==
    responder.pc = "idle" =>
        \A id \in DOMAIN opportunities :
            opportunities[id].status = "responded" => id \in responses

(***************************************************************************)
(* Claims about a scope whose fetch failed.                                *)
(***************************************************************************)
\* the candidates of the scopes that did not fail, in the order scanned
RECURSIVE CandidatesOfOthers(_)
CandidatesOfOthers(results) ==
    IF results = <<>> THEN <<>>
    ELSE (IF Head(results).errors THEN <<>> ELSE Head(results).opportunities)
         \o CandidatesOfOthers(Tail(results))

\* of these candidates, the ones a store holding `ids` takes as new
RECURSIVE NewAmong(_, _)
NewAmong(candidates, ids) ==
    IF candidates = <<>> THEN <<>>
    ELSE IF Head(candidates).reddit_id \in ids
         THEN NewAmong(Tail(candidates), ids)
         ELSE <<Head(candidates)>>
              \o NewAmong(Tail(candidates), ids \cup {Head(candidates).reddit_id})

RedditIdsOf(list) == [i \in DOMAIN list |-> list[i].reddit_id]

StoredIds(rows) == {rows[i].reddit_id : i \in DOMAIN rows}

\* what the invocation does when the failing scopes are absent: the new
\* opportunities it creates, highest score first
WithoutFailed ==
    SortDesc(NewAmong(CandidatesOfOthers(invocation.results),
                      StoredIds(invocation.rows)))

Failed == {k \in DOMAIN invocation.results : invocation.results[k].errors}

====
